---- MODULE Spec2Model ----
(***************************************************************************)
(* Control-and-supervision core of the shuttlebox thermoregulation rig.    *)
(*                                                                         *)
(* The model follows src/src/shuttlebox_gui_DAQ_M.py (SerialDevice,        *)
(* IRSensorController, DAQTempController, ShuttleboxGUI) and               *)
(* src/src/tc08_controller.py (TC08Controller).  Every handler is an       *)
(* operator from a state record to a state record, composed in the order   *)
(* of the code, and an action commits the record it returns.               *)
(*                                                                         *)
(* Temperatures are integers in tenths of a degree Celsius, times are      *)
(* integers in seconds.  Python's None is the integer None (-1), which is  *)
(* outside every value set used here.                                      *)
(***************************************************************************)
EXTENDS Integers, Sequences, FiniteSets, TLC

\* ------------------------------------------------------------------ bounds
\* the clock stops at MaxTime
MaxTime == 32
\* read cycles that fail on every channel are counted up to MaxFailures
MaxFailures == 6
\* capacity of the inbound message queue in the model
MaxQueue == 1

\* the longest series the model follows
MaxSeries == 11
\* the clock of a momentary correction stops at MaxCorrectionTime
\* lines waiting in the inbound queue of the position sensor
MaxInbound == 2
MaxCorrectionTime == 7

\* ------------------------------------------------- values of the program
None == 0 - 1
\* get_current_fish_position was not called in the last step
NotCalled == 0 - 2

\* SerialDevice.heartbeat_timeout
HeartbeatTimeout == 15
\* TC08Controller.needs_reconnection: default failure_threshold
FailureThreshold == 5
\* operator settings of the control panel (defaults of the entry fields)
StartTemp == 250
Hysteresis == 2
TempDiff == 20
StartSide == "warm"
\* an entry field whose text float() does not accept
NotANumber == 0 - 3
\* texts an operator leaves in the start-side and the difference field
StartSides == {"warm", "cold"}
TempDiffTexts == {TempDiff, NotANumber}
\* plot_period_var (seconds) as constructed, and a short period an operator
\* can enter
DefaultPlotPeriod == 300
PlotPeriods == {DefaultPlotPeriod, 5}
\* tc08_interval_var (milliseconds)
Tc08Interval == 1000
\* the floor of max_data_points
MinDataPoints == 10
\* the first PlotWarmCount configured channels are plotted as the warm side
PlotWarmCount == 3
\* delay of a momentary position correction (seconds)
CorrectionDelay == 3
\* seconds between two ticks
TickPeriod == 1

\* rows of the channel configuration, and the channel numbers a row accepts
ConfigRows == 6
ChannelNumbers == 1..8
\* config.tc08_channels, in configuration order (the default configuration)
Channels == <<1, 2, 3, 4, 5, 6>>
ChannelSet == {Channels[i] : i \in 1..Len(Channels)}
\* temperatures a channel can report
Temps == {230, 240, 251, 263}
\* a failed reading (TemperatureReading.error is set)
Invalid == None
\* DAQTempController.line_mapping
Relays == {"HEAT", "COOL", "BHEAT", "BCOOL"}
Positions == {0, 1, 2}
\* lines of the position-sensor peripheral
Messages == {"POSITION:0", "POSITION:1", "POSITION:2"}
\* lines a serial port can deliver: well-formed and malformed position
\* lines, sensor states, the heartbeat, and noise
Lines ==
    Messages \cup {"0", "2", "3", "POSITION:3", "POSITION:x", "POSITION:1:9",
                   "SENSORS:1010101010", "HEARTBEAT", "noise"}
\* clock steps: one heartbeat period, and a silence longer than the timeout
ClockSteps == {5, HeartbeatTimeout + 1}

\* no row recorded
NoRow == [written |-> FALSE, heating |-> FALSE, cooling |-> FALSE]

AllOff == [r \in Relays |-> FALSE]
\* every write to the digital output succeeds
AllOk == [r \in Relays |-> TRUE]
WriteOutcomes == [Relays -> BOOLEAN]
\* the outcomes of one read cycle
Readings == [ChannelSet -> Temps \cup {Invalid}]
NoReadings == [c \in ChannelSet |-> Invalid]
\* the channels of the warm tank and of the cold tank
WarmChannels == {Channels[i] : i \in {j \in 1..Len(Channels) : j - 1 < Len(Channels) \div 2}}
ColdChannels == ChannelSet \ WarmChannels
\* read cycles in which the probes of a tank agree
SideReadings ==
    {[c \in ChannelSet |-> IF c \in WarmChannels THEN w ELSE k] :
        w \in Temps \cup {Invalid}, k \in Temps \cup {Invalid}}
\* read cycles in which a channel either reads 24.0 or fails
ValidityReadings == [ChannelSet -> {240, Invalid}]

VARIABLES
    now,                        \* time.time()
    \* TC08Controller
    tc08_controller, tc08_connected, tc08_streaming,
    consecutive_read_failures, total_read_failures,
    \* ShuttleboxGUI, acquisition side
    plotting_active, temperature_data,
    \* SerialDevice / IRSensorController
    ir_sensor_controller, ir_connected, ir_running,
    last_heartbeat, connection_lost, message_queue, fish_position,
    \* DAQTempController
    temp_control_controller, relay_states, desired_states,
    \* ShuttleboxGUI, control and supervision
    static_control_active, dynamic_control_active, difference_control_active,
    recording_active, monitoring_active,
    ir_warning_shown, temp_warning_shown,
    manual_position_override, persistent_manual_mode,
    \* the two threads inside SerialDevice
    reader_pc, hc_pc, hc_since, hc_result,
    \* history of the last step
    lastOp, tick_commands, tick_ir_health, safety_stop_invoked,
    episode_stops, stops_total, failure_streak, hb_done_at, hc_call_hb,
    \* ShuttleboxGUI, the series of the plot and the plot-period field
    plot_period, temperature_timestamps,
    warm_avg_data, cold_avg_data, avg_timestamps, fish_temp_data,
    \* pending root.after callbacks of return_to_automatic_after_correction
    override_timers,
    \* history of the position sources and of the last mode request
    sensor_reported, correction_at, correction_value, correction_kind,
    resolved_position, start_rejected, mode_before,
    \* ShuttleboxGUI, the entry fields of the control settings
    start_temp_var, hysteresis_var, temp_diff_var, start_side_var,
    \* history of the last step: the exception of a control evaluation, and
    \* the last text written to control_status_var
    control_exception, status_written,
    \* history of the last step: the averages its control evaluation read
    tick_warm_avg, tick_cold_avg,
    \* config.tc08_channels
    tc08_channels,
    \* the tick thread inside get_latest_data, and the position named by the
    \* last well-formed position line the reader thread has taken
    drain_pc, received_position,
    \* history of the last step: the condition read_temperatures raised
    read_error,
    \* history of the last tick: its steps in the order they ran, and the
    \* relay columns of the row it recorded
    tick_order, tick_row,
    \* pending root.after callbacks of update_gui
    update_timers,
    \* the loop of _read_messages in the reader thread, and the serial port
    read_loop, serial_open

vars == <<now, tc08_controller, tc08_connected, tc08_streaming,
          consecutive_read_failures, total_read_failures,
          plotting_active, temperature_data,
          ir_sensor_controller, ir_connected, ir_running,
          last_heartbeat, connection_lost, message_queue, fish_position,
          temp_control_controller, relay_states, desired_states,
          static_control_active, dynamic_control_active,
          difference_control_active, recording_active, monitoring_active,
          ir_warning_shown, temp_warning_shown,
          manual_position_override, persistent_manual_mode,
          reader_pc, hc_pc, hc_since, hc_result,
          lastOp, tick_commands, tick_ir_health, safety_stop_invoked,
          episode_stops, stops_total, failure_streak, hb_done_at, hc_call_hb,
          plot_period, temperature_timestamps,
          warm_avg_data, cold_avg_data, avg_timestamps, fish_temp_data,
          override_timers,
          sensor_reported, correction_at, correction_value, correction_kind,
          resolved_position, start_rejected, mode_before,
          start_temp_var, hysteresis_var, temp_diff_var, start_side_var,
          control_exception, status_written,
          tick_warm_avg, tick_cold_avg, tc08_channels,
          drain_pc, received_position, read_error,
          tick_order, tick_row, update_timers, read_loop, serial_open>>

\* the state as one record, so that handlers compose like the code
St ==
    [now |-> now,
     tc08_controller |-> tc08_controller, tc08_connected |-> tc08_connected,
     tc08_streaming |-> tc08_streaming,
     consecutive_read_failures |-> consecutive_read_failures,
     total_read_failures |-> total_read_failures,
     plotting_active |-> plotting_active, temperature_data |-> temperature_data,
     ir_sensor_controller |-> ir_sensor_controller, ir_connected |-> ir_connected,
     ir_running |-> ir_running, last_heartbeat |-> last_heartbeat,
     connection_lost |-> connection_lost, message_queue |-> message_queue,
     fish_position |-> fish_position,
     temp_control_controller |-> temp_control_controller,
     relay_states |-> relay_states, desired_states |-> desired_states,
     static_control_active |-> static_control_active,
     dynamic_control_active |-> dynamic_control_active,
     difference_control_active |-> difference_control_active,
     recording_active |-> recording_active, monitoring_active |-> monitoring_active,
     ir_warning_shown |-> ir_warning_shown, temp_warning_shown |-> temp_warning_shown,
     manual_position_override |-> manual_position_override,
     persistent_manual_mode |-> persistent_manual_mode,
     reader_pc |-> reader_pc, hc_pc |-> hc_pc, hc_since |-> hc_since,
     hc_result |-> hc_result,
     lastOp |-> lastOp, tick_commands |-> tick_commands,
     tick_ir_health |-> tick_ir_health, safety_stop_invoked |-> safety_stop_invoked,
     episode_stops |-> episode_stops, failure_streak |-> failure_streak,
     hb_done_at |-> hb_done_at, hc_call_hb |-> hc_call_hb,
     stops_total |-> stops_total,
     plot_period |-> plot_period,
     temperature_timestamps |-> temperature_timestamps,
     warm_avg_data |-> warm_avg_data,
     cold_avg_data |-> cold_avg_data,
     avg_timestamps |-> avg_timestamps,
     fish_temp_data |-> fish_temp_data,
     override_timers |-> override_timers,
     sensor_reported |-> sensor_reported,
     correction_at |-> correction_at,
     correction_value |-> correction_value,
     correction_kind |-> correction_kind,
     resolved_position |-> resolved_position,
     start_rejected |-> start_rejected,
     mode_before |-> mode_before,
     start_temp_var |-> start_temp_var,
     hysteresis_var |-> hysteresis_var,
     temp_diff_var |-> temp_diff_var,
     start_side_var |-> start_side_var,
     control_exception |-> control_exception,
     status_written |-> status_written,
     tick_warm_avg |-> tick_warm_avg,
     tick_cold_avg |-> tick_cold_avg,
     tc08_channels |-> tc08_channels,
     drain_pc |-> drain_pc,
     received_position |-> received_position,
     read_error |-> read_error,
     tick_order |-> tick_order,
     tick_row |-> tick_row,
     update_timers |-> update_timers,
     read_loop |-> read_loop, serial_open |-> serial_open]

\* a handler named op has run and left the state s
Commit(op, s) ==
    /\ now' = s.now
    /\ tc08_controller' = s.tc08_controller
    /\ tc08_connected' = s.tc08_connected
    /\ tc08_streaming' = s.tc08_streaming
    /\ consecutive_read_failures' = s.consecutive_read_failures
    /\ total_read_failures' = s.total_read_failures
    /\ plotting_active' = s.plotting_active
    /\ temperature_data' = s.temperature_data
    /\ ir_sensor_controller' = s.ir_sensor_controller
    /\ ir_connected' = s.ir_connected
    /\ ir_running' = s.ir_running
    /\ last_heartbeat' = s.last_heartbeat
    /\ connection_lost' = s.connection_lost
    /\ message_queue' = s.message_queue
    /\ fish_position' = s.fish_position
    /\ temp_control_controller' = s.temp_control_controller
    /\ relay_states' = s.relay_states
    /\ desired_states' = s.desired_states
    /\ static_control_active' = s.static_control_active
    /\ dynamic_control_active' = s.dynamic_control_active
    /\ difference_control_active' = s.difference_control_active
    /\ recording_active' = s.recording_active
    /\ monitoring_active' = s.monitoring_active
    /\ ir_warning_shown' = s.ir_warning_shown
    /\ temp_warning_shown' = s.temp_warning_shown
    /\ manual_position_override' = s.manual_position_override
    /\ persistent_manual_mode' = s.persistent_manual_mode
    /\ reader_pc' = s.reader_pc
    /\ hc_pc' = s.hc_pc
    /\ hc_since' = s.hc_since
    /\ hc_result' = s.hc_result
    /\ lastOp' = op
    /\ tick_commands' = s.tick_commands
    /\ tick_ir_health' = s.tick_ir_health
    /\ safety_stop_invoked' = s.safety_stop_invoked
    /\ episode_stops' = s.episode_stops
    /\ failure_streak' = s.failure_streak
    /\ hb_done_at' = s.hb_done_at
    /\ stops_total' = s.stops_total
    /\ hc_call_hb' = s.hc_call_hb
    /\ plot_period' = s.plot_period
    /\ temperature_timestamps' = s.temperature_timestamps
    /\ warm_avg_data' = s.warm_avg_data
    /\ cold_avg_data' = s.cold_avg_data
    /\ avg_timestamps' = s.avg_timestamps
    /\ fish_temp_data' = s.fish_temp_data
    /\ override_timers' = s.override_timers
    /\ sensor_reported' = s.sensor_reported
    /\ correction_at' = s.correction_at
    /\ correction_value' = s.correction_value
    /\ correction_kind' = s.correction_kind
    /\ resolved_position' = s.resolved_position
    /\ start_rejected' = s.start_rejected
    /\ mode_before' = s.mode_before
    /\ start_temp_var' = s.start_temp_var
    /\ hysteresis_var' = s.hysteresis_var
    /\ temp_diff_var' = s.temp_diff_var
    /\ start_side_var' = s.start_side_var
    /\ control_exception' = s.control_exception
    /\ status_written' = s.status_written
    /\ tick_warm_avg' = s.tick_warm_avg
    /\ tick_cold_avg' = s.tick_cold_avg
    /\ tc08_channels' = s.tc08_channels
    /\ drain_pc' = s.drain_pc
    /\ received_position' = s.received_position
    /\ read_error' = s.read_error
    /\ tick_order' = s.tick_order
    /\ tick_row' = s.tick_row
    /\ update_timers' = s.update_timers
    /\ read_loop' = s.read_loop
    /\ serial_open' = s.serial_open

\* what the last step recorded is cleared when the next handler starts
Begin(s) ==
    [s EXCEPT !.tick_commands = {}, !.tick_ir_health = "none",
              !.safety_stop_invoked = FALSE, !.hc_result = "none",
              !.resolved_position = NotCalled, !.start_rejected = FALSE,
              !.mode_before = "none",
              !.control_exception = FALSE, !.status_written = "none",
              !.tick_warm_avg = None, !.tick_cold_avg = None,
              !.read_error = "none",
              !.tick_order = <<>>, !.tick_row = NoRow]

Init ==
    /\ now = 0
    /\ tc08_controller = FALSE /\ tc08_connected = FALSE /\ tc08_streaming = FALSE
    /\ consecutive_read_failures = 0 /\ total_read_failures = 0
    /\ plotting_active = FALSE
    /\ temperature_data = [c \in ChannelSet |-> None]
    /\ ir_sensor_controller = FALSE /\ ir_connected = FALSE /\ ir_running = FALSE
    /\ last_heartbeat = None /\ connection_lost = FALSE
    /\ message_queue = <<>> /\ fish_position = 0
    /\ temp_control_controller = FALSE
    /\ relay_states = AllOff /\ desired_states = AllOff
    /\ static_control_active = FALSE /\ dynamic_control_active = FALSE
    /\ difference_control_active = FALSE
    /\ recording_active = FALSE /\ monitoring_active = FALSE
    /\ ir_warning_shown = FALSE /\ temp_warning_shown = FALSE
    /\ manual_position_override = None /\ persistent_manual_mode = FALSE
    /\ reader_pc = "idle" /\ hc_pc = "idle" /\ hc_since = 0 /\ hc_result = "none"
    /\ lastOp = "init" /\ tick_commands = {} /\ tick_ir_health = "none"
    /\ safety_stop_invoked = FALSE /\ episode_stops = 0 /\ failure_streak = 0
    /\ hb_done_at = None /\ hc_call_hb = None /\ stops_total = 0
    /\ plot_period = DefaultPlotPeriod
    /\ temperature_timestamps = [c \in ChannelSet |-> <<>>]
    /\ warm_avg_data = <<>> /\ cold_avg_data = <<>>
    /\ avg_timestamps = <<>> /\ fish_temp_data = <<>>
    /\ override_timers = {}
    /\ sensor_reported = None
    /\ correction_at = None /\ correction_value = None /\ correction_kind = "none"
    /\ resolved_position = NotCalled /\ start_rejected = FALSE
    /\ mode_before = "none"
    /\ start_temp_var = StartTemp /\ hysteresis_var = Hysteresis
    /\ temp_diff_var = TempDiff /\ start_side_var = StartSide
    /\ control_exception = FALSE /\ status_written = "none"
    /\ tick_warm_avg = None /\ tick_cold_avg = None
    /\ tc08_channels = Channels
    /\ drain_pc = "idle" /\ received_position = None
    /\ read_error = "none"
    /\ tick_order = <<>> /\ tick_row = NoRow
    /\ update_timers = 1
    /\ read_loop = "not_started" /\ serial_open = FALSE

\* ---------------------------------------------------------- SerialDevice
\* more than heartbeat_timeout seconds since the last heartbeat
\* (a timeout that is too long)
HeartbeatExpiredLate(t, last) == t - last > HeartbeatTimeout + 5
HeartbeatExpired(t, last) == t - last > HeartbeatTimeout

\* is_connection_healthy(), run without interruption: the value returned
NeverSeenHealthy(s) == s.ir_connected

IsConnectionHealthy(s) ==
    IF s.last_heartbeat = None THEN NeverSeenHealthy(s)
    ELSE IF HeartbeatExpired(s.now, s.last_heartbeat) THEN FALSE
    ELSE s.ir_connected /\ ~s.connection_lost

\* is_connection_healthy(), run without interruption: the state it leaves
AfterHealthCheck(s) ==
    IF s.last_heartbeat # None /\ HeartbeatExpired(s.now, s.last_heartbeat)
    THEN [s EXCEPT !.connection_lost = TRUE]
    ELSE s

\* IRSensorController._process_message: the position after one line
\* message.split(":"): the fields of a line
SplitColon(m) ==
    CASE m = "POSITION:0" -> <<"POSITION", "0">>
      [] m = "POSITION:1" -> <<"POSITION", "1">>
      [] m = "POSITION:2" -> <<"POSITION", "2">>
      [] m = "POSITION:3" -> <<"POSITION", "3">>
      [] m = "POSITION:x" -> <<"POSITION", "x">>
      [] m = "POSITION:1:9" -> <<"POSITION", "1", "9">>
      [] m = "SENSORS:1010101010" -> <<"SENSORS", "1010101010">>
      [] OTHER -> <<m>>

\* int(text); NotANumber where it raises ValueError
IntOf(text) ==
    CASE text = "0" -> 0
      [] text = "1" -> 1
      [] text = "2" -> 2
      [] text = "3" -> 3
      [] text = "9" -> 9
      [] OTHER -> NotANumber

\* message.startswith("POSITION:")
StartsWithPosition(m) == Len(SplitColon(m)) >= 2 /\ SplitColon(m)[1] = "POSITION"

\* IRSensorController._process_message: the position it leaves
ProcessMessage(pos, m) ==
    IF StartsWithPosition(m)
    THEN IF IntOf(SplitColon(m)[2]) \in {0, 1, 2}
         THEN IntOf(SplitColon(m)[2]) ELSE pos
    ELSE IF m \in {"0", "1", "2"} THEN IntOf(m)
    ELSE pos

RECURSIVE ProcessAll(_, _)
ProcessAll(pos, q) ==
    IF q = <<>> THEN pos ELSE ProcessAll(ProcessMessage(pos, Head(q)), Tail(q))

\* IRSensorController.get_latest_data: drain the queue in arrival order
GetLatestData(s) ==
    [s EXCEPT !.fish_position = ProcessAll(s.fish_position, s.message_queue),
              !.sensor_reported = ProcessAll(s.sensor_reported, s.message_queue),
              !.message_queue = <<>>]

\* IRSensorController.override_fish_position
OverrideFishPosition(s, position) ==
    IF position \in {0, 1, 2} THEN [s EXCEPT !.fish_position = position] ELSE s

\* ------------------------------------------------------ DAQTempController
\* _write_digital_line: the states change only when the write succeeds
WriteDigitalLine(s, r, v, ok) ==
    IF ok[r]
    THEN [s EXCEPT !.relay_states[r] = v, !.desired_states[r] = v]
    ELSE s

\* DAQTempController.emergency_stop: every relay in turn
DaqEmergencyStop(s, ok) ==
    LET s1 == WriteDigitalLine(s, "HEAT", FALSE, ok)
        s2 == WriteDigitalLine(s1, "COOL", FALSE, ok)
        s3 == WriteDigitalLine(s2, "BHEAT", FALSE, ok)
    IN  WriteDigitalLine(s3, "BCOOL", FALSE, ok)

\* DAQTempController.is_connection_healthy: connected with its four tasks,
\* which holds of every controller the GUI keeps
DaqConnectionHealthy(s) == s.temp_control_controller

\* --------------------------------------------------------- TC08Controller
\* the channels of the read cycle that returned an error
FailedChannels(readings) ==
    Cardinality({i \in 1..Len(Channels) : readings[Channels[i]] = Invalid})

\* (a cycle counted as failed as soon as one channel fails)
CycleFailedAny(readings) == FailedChannels(readings) > 0
\* the branch of read_temperatures that counts the cycle as failed
CycleFailed(readings) == FailedChannels(readings) = Len(Channels)

\* read_temperatures, for a connected and streaming device
ReadTemperatures(s, readings) ==
    LET streak == IF \A c \in ChannelSet : readings[c] = Invalid
                  THEN s.failure_streak + 1 ELSE 0
    IN  IF CycleFailed(readings)
        THEN [s EXCEPT !.consecutive_read_failures = @ + 1,
                       !.total_read_failures = @ + 1,
                       !.failure_streak = streak]
        ELSE [s EXCEPT !.consecutive_read_failures = 0,
                       !.failure_streak = streak]

\* TC08Controller.read_temperatures as called: the two conditions raised
\* before the read cycle, then the read cycle
ReadTemperaturesCall(s, readings) ==
    IF ~s.tc08_connected THEN [s EXCEPT !.read_error = "not_connected"]
    ELSE IF ~s.tc08_streaming THEN [s EXCEPT !.read_error = "not_streaming"]
    ELSE ReadTemperatures(s, readings)

needs_reconnection(s, failure_threshold) ==
    s.consecutive_read_failures >= failure_threshold


\* ------------------------------------- ShuttleboxGUI: the channel subsets
\* get_warm_side_average / get_cold_side_average: the positions of the
\* warm and of the cold channels in a configuration of n channels
ControlWarmIndices(n) == {i \in 1..n : i - 1 < n \div 2}
ControlColdIndices(n) == {i \in 1..n : i - 1 >= n \div 2}
\* update_temperature_plot and the header written by start_recording
SeriesWarmIndices(n) == {i \in 1..n : i - 1 < PlotWarmCount}
SeriesColdIndices(n) == {i \in 1..n : i - 1 >= PlotWarmCount}

ControlWarmChannels(channels) ==
    {channels[i] : i \in ControlWarmIndices(Len(channels))}
ControlColdChannels(channels) ==
    {channels[i] : i \in ControlColdIndices(Len(channels))}
SeriesWarmChannels(channels) ==
    {channels[i] : i \in SeriesWarmIndices(Len(channels))}
SeriesColdChannels(channels) ==
    {channels[i] : i \in SeriesColdIndices(Len(channels))}
HeaderWarmChannels(channels) ==
    {channels[i] : i \in {j \in 1..Len(channels) : j - 1 < 3}}
HeaderColdChannels(channels) ==
    {channels[i] : i \in {j \in 1..Len(channels) : j - 1 >= 3}}

\* connect_tc08: the channels of the enabled rows, in the order of the rows
\* (the rows list their channel numbers in increasing order)
ParseChannels(enabled) ==
    [i \in 1..Cardinality(enabled) |->
        CHOOSE c \in enabled : Cardinality({d \in enabled : d < c}) = i - 1]

\* ----------------------------------------------- ShuttleboxGUI: averages
RECURSIVE SumSeq(_)
SumSeq(q) == IF q = <<>> THEN 0 ELSE Head(q) + SumSeq(Tail(q))

\* the latest stored values of the channels at the given positions of the
\* configuration order that have one
StoredTemps(s, idx) ==
    LET has(i) == s.temperature_data[Channels[i]] # None
        F[i \in 0..Len(Channels)] ==
            IF i = 0 THEN <<>>
            ELSE IF i \in idx /\ has(i)
                 THEN Append(F[i - 1], s.temperature_data[Channels[i]])
                 ELSE F[i - 1]
    IN  F[Len(Channels)]

\* (the sum divided by the size of the subset)
SideAverageOverSubset(s, idx) ==
    IF ~s.tc08_controller \/ ~s.plotting_active THEN None
    ELSE LET valid_temps == StoredTemps(s, idx)
         IN  IF Len(valid_temps) = 0 THEN None
             ELSE SumSeq(valid_temps) \div Cardinality(idx)

\* get_warm_side_average / get_cold_side_average over the channels at the
\* given positions
SideAverage(s, idx) ==
    IF ~s.tc08_controller \/ ~s.plotting_active THEN None
    ELSE LET valid_temps == StoredTemps(s, idx)
         IN  IF Len(valid_temps) = 0 THEN None
             ELSE SumSeq(valid_temps) \div Len(valid_temps)

\* get_warm_side_average: the first half of the configured channels
GetWarmSideAverage(s) ==
    SideAverage(s, ControlWarmIndices(Len(Channels)))

\* get_cold_side_average: the second half of the configured channels
GetColdSideAverage(s) ==
    SideAverage(s, ControlColdIndices(Len(Channels)))

Abs(x) == IF x < 0 THEN 0 - x ELSE x

\* ----------------------------------------------- ShuttleboxGUI: position
\* (the sensor asked first, the override only without a sensor)
GetCurrentFishPositionSensorFirst(s) ==
    IF s.ir_sensor_controller THEN GetLatestData(s).fish_position
    ELSE IF s.manual_position_override # None THEN s.manual_position_override
    ELSE None

\* get_current_fish_position: the value returned
GetCurrentFishPosition(s) ==
    IF s.manual_position_override # None THEN s.manual_position_override
    ELSE IF s.ir_sensor_controller THEN GetLatestData(s).fish_position
    ELSE None

\* get_current_fish_position: the state it leaves (the queue is drained
\* when the sensor is asked)
AfterGetPosition(s) ==
    LET s1 == IF s.manual_position_override = None /\ s.ir_sensor_controller
              THEN GetLatestData(s) ELSE s
    IN  [s1 EXCEPT !.resolved_position = GetCurrentFishPosition(s)]

\* set_manual_fish_position: result is the answer to the confirmation dialog
\* of a momentary correction
SetManualFishPosition(s, position, result) ==
    IF s.persistent_manual_mode
    THEN [s EXCEPT !.manual_position_override = position,
                   !.correction_at = None, !.correction_value = None,
                   !.correction_kind = "none"]
    ELSE IF result
    THEN LET s1 == [s EXCEPT !.manual_position_override = position]
             s2 == IF s1.ir_sensor_controller
                   THEN OverrideFishPosition(s1, position) ELSE s1
         IN  [s2 EXCEPT !.override_timers = @ \cup {s.now + CorrectionDelay},
                        !.correction_at = s.now,
                        !.correction_value = position,
                        !.correction_kind =
                            IF s.override_timers = {} THEN "single"
                            ELSE IF s.manual_position_override # None
                                    /\ \A t \in s.override_timers : t > s.now
                            THEN "restart" ELSE "other"]
    ELSE s

\* (a correction that expires in persistent mode as well)
CorrectionExpiresAlways(s) == s.manual_position_override # None
\* return_to_automatic_after_correction: the condition under which the
\* override is removed
CorrectionExpires(s) ==
    ~s.persistent_manual_mode /\ s.manual_position_override # None

\* return_to_automatic_after_correction
ReturnToAutomaticAfterCorrection(s) ==
    IF CorrectionExpires(s)
    THEN LET s1 == [s EXCEPT !.manual_position_override = None]
         IN  IF s1.ir_sensor_controller THEN GetLatestData(s1) ELSE s1
    ELSE s

\* toggle_persistent_manual_control: the checkbox has changed its variable
TogglePersistentManualControl(s) ==
    LET s1 == [s EXCEPT !.persistent_manual_mode = ~@,
                        !.correction_at = None, !.correction_value = None,
                        !.correction_kind = "none"]
    IN  IF s1.persistent_manual_mode
        THEN IF s1.manual_position_override = None
             THEN [s1 EXCEPT !.manual_position_override = 0]
             ELSE s1
        ELSE LET s2 == [s1 EXCEPT !.manual_position_override = None]
             IN  IF s2.ir_sensor_controller THEN GetLatestData(s2) ELSE s2

\* ------------------------------------ ShuttleboxGUI: control evaluation
\* a relay command issued by a control evaluation; c.exc is set once a call
\* on a missing relay controller has raised, and ends the evaluation
CtlStart(s) == [s |-> s, exc |-> FALSE]

\* the element of a one-element set: {F(x) : x \in {e}} takes the value of
\* e once and hands it to the next statement
Only(S) == CHOOSE x \in S : TRUE

CtlWrite(evaluation, r, v, ok) ==
    Only({IF c.exc THEN c
          ELSE IF ~c.s.temp_control_controller THEN [c EXCEPT !.exc = TRUE]
          ELSE [c EXCEPT !.s = [WriteDigitalLine(c.s, r, v, ok)
                                  EXCEPT !.tick_commands = @ \cup {r}]] :
          c \in {evaluation}})

\* (a rule of the buffer tanks without hysteresis)
BufferBandNoHysteresis(c, actual_diff, ok) ==
    IF actual_diff > c.s.temp_diff_var
    THEN CtlWrite(CtlWrite(c, "BHEAT", TRUE, ok), "BCOOL", TRUE, ok)
    ELSE IF actual_diff < c.s.temp_diff_var
    THEN CtlWrite(CtlWrite(c, "BHEAT", FALSE, ok), "BCOOL", FALSE, ok)
    ELSE c
\* the two-point rule of the buffer tanks
BufferBand(c, actual_diff, ok) ==
    IF actual_diff > c.s.temp_diff_var + c.s.hysteresis_var
    THEN CtlWrite(CtlWrite(c, "BHEAT", TRUE, ok), "BCOOL", TRUE, ok)
    ELSE IF actual_diff < c.s.temp_diff_var
    THEN CtlWrite(CtlWrite(c, "BHEAT", FALSE, ok), "BCOOL", FALSE, ok)
    ELSE c

\* the target temperatures of the static mode
WarmTarget(s) ==
    IF s.start_side_var = "warm" THEN s.start_temp_var
    ELSE s.start_temp_var + s.temp_diff_var
ColdTarget(s) ==
    IF s.start_side_var = "warm" THEN s.start_temp_var - s.temp_diff_var
    ELSE s.start_temp_var

\* float() of an entry field raises ValueError
FloatRaises(text) == text = NotANumber

\* (switching heating off as soon as the target is reached)
HeatOffAt(warm_avg, warm_target) == warm_avg >= warm_target
\* perform_static_temperature_control: "too warm on warm side"
HeatOff(warm_avg, warm_target) == warm_avg > warm_target

\* the warm side of the static mode
StaticWarmSide(c, warm_avg, ok) ==
    IF warm_avg < WarmTarget(c.s) - c.s.hysteresis_var
    THEN CtlWrite(c, "HEAT", TRUE, ok)
    ELSE IF HeatOff(warm_avg, WarmTarget(c.s))
    THEN CtlWrite(c, "HEAT", FALSE, ok)
    ELSE c

\* the cold side of the static mode
StaticColdSide(c, cold_avg, ok) ==
    IF cold_avg > ColdTarget(c.s) + c.s.hysteresis_var
    THEN CtlWrite(c, "COOL", TRUE, ok)
    ELSE IF cold_avg < ColdTarget(c.s)
    THEN CtlWrite(c, "COOL", FALSE, ok)
    ELSE c

\* (an except block that leaves the mode running)
LeaveMode(s, mode) == s
\* the except block of a control evaluation clears the flag of its mode
ClearMode(s, mode) ==
    [s EXCEPT !.static_control_active = IF mode = "static" THEN FALSE ELSE @,
              !.dynamic_control_active = IF mode = "dynamic" THEN FALSE ELSE @]

\* the end of a control evaluation: the status text of the mode, or the
\* except block
CtlEnd(c, mode) ==
    IF c.exc
    THEN [ClearMode(c.s, mode) EXCEPT !.control_exception = TRUE,
                                      !.status_written = "error"]
    ELSE [c.s EXCEPT !.status_written = mode]

\* perform_static_temperature_control
PerformStaticTemperatureControl(s, ok) ==
    IF FloatRaises(s.start_temp_var) \/ FloatRaises(s.hysteresis_var)
       \/ FloatRaises(s.temp_diff_var)
    THEN CtlEnd([s |-> s, exc |-> TRUE], "static")
    ELSE LET warm_avg == GetWarmSideAverage(s)
             cold_avg == GetColdSideAverage(s)
         IN  IF warm_avg = None \/ cold_avg = None THEN s
             ELSE CtlEnd(
                      BufferBand(
                          StaticColdSide(
                              StaticWarmSide(
                                  CtlStart([s EXCEPT
                                               !.tick_warm_avg = warm_avg,
                                               !.tick_cold_avg = cold_avg]),
                                  warm_avg, ok),
                              cold_avg, ok),
                          Abs(warm_avg - cold_avg), ok),
                      "static")

\* (a side selection that switches both relays off in the passage)
SideSelectPassageOff(c, pos, ok) ==
    IF pos = 2
    THEN CtlWrite(CtlWrite(c, "HEAT", TRUE, ok), "COOL", FALSE, ok)
    ELSE IF pos = 1
    THEN CtlWrite(CtlWrite(c, "COOL", TRUE, ok), "HEAT", FALSE, ok)
    ELSE CtlWrite(CtlWrite(c, "HEAT", FALSE, ok), "COOL", FALSE, ok)
\* standard side selection of the dynamic mode
SideSelect(c, pos, ok) ==
    IF pos = 2
    THEN CtlWrite(CtlWrite(c, "HEAT", TRUE, ok), "COOL", FALSE, ok)
    ELSE IF pos = 1
    THEN CtlWrite(CtlWrite(c, "COOL", TRUE, ok), "HEAT", FALSE, ok)
    ELSE c

\* (the opposing relay is not added)
DriveApartSideOnly(c, pos, ok) == SideSelect(c, pos, ok)
\* (in the passage the opposing relay replaces the running one)
DriveApartSwap(c, pos, ok) ==
    LET current_heating == c.s.relay_states["HEAT"]
        current_cooling == c.s.relay_states["COOL"]
        c1 == IF ~c.s.temp_control_controller THEN [c EXCEPT !.exc = TRUE] ELSE c
    IN  IF pos = 2
        THEN LET h == CtlWrite(c1, "HEAT", TRUE, ok)
             IN  IF ~current_cooling THEN CtlWrite(h, "COOL", TRUE, ok) ELSE h
        ELSE IF pos = 1
        THEN LET k == CtlWrite(c1, "COOL", TRUE, ok)
             IN  IF ~current_heating THEN CtlWrite(k, "HEAT", TRUE, ok) ELSE k
        ELSE IF pos = 0
        THEN IF current_heating /\ ~current_cooling
             THEN CtlWrite(CtlWrite(c1, "COOL", TRUE, ok), "HEAT", FALSE, ok)
             ELSE IF current_cooling /\ ~current_heating
             THEN CtlWrite(CtlWrite(c1, "HEAT", TRUE, ok), "COOL", FALSE, ok)
             ELSE c1
        ELSE c1
\* the branch of the difference control that drives the sides apart
DriveApart(c, pos, ok) ==
    LET current_heating == c.s.relay_states["HEAT"]
        current_cooling == c.s.relay_states["COOL"]
        c1 == IF ~c.s.temp_control_controller THEN [c EXCEPT !.exc = TRUE] ELSE c
    IN  IF pos = 2
        THEN LET h == CtlWrite(c1, "HEAT", TRUE, ok)
             IN  IF ~current_cooling THEN CtlWrite(h, "COOL", TRUE, ok) ELSE h
        ELSE IF pos = 1
        THEN LET k == CtlWrite(c1, "COOL", TRUE, ok)
             IN  IF ~current_heating THEN CtlWrite(k, "HEAT", TRUE, ok) ELSE k
        ELSE IF pos = 0
        THEN IF current_heating /\ ~current_cooling
             THEN CtlWrite(c1, "COOL", TRUE, ok)
             ELSE IF current_cooling /\ ~current_heating
             THEN CtlWrite(c1, "HEAT", TRUE, ok)
             ELSE c1
        ELSE c1

\* (the buffer tanks keep their state inside the band)
BuffersKept(c, ok) == c
\* the difference control inside the band: buffer tanks off
BuffersOff(c, ok) ==
    CtlWrite(CtlWrite(c, "BHEAT", FALSE, ok), "BCOOL", FALSE, ok)

\* the relay commands of a dynamic evaluation for the position pos
DynamicCommands(c, pos, actual_diff, ok) ==
    IF c.s.difference_control_active
    THEN IF actual_diff < c.s.temp_diff_var
         THEN DriveApart(c, pos, ok)
         ELSE IF actual_diff > c.s.temp_diff_var + c.s.hysteresis_var
         THEN CtlWrite(CtlWrite(SideSelect(c, pos, ok),
                                "BHEAT", TRUE, ok), "BCOOL", TRUE, ok)
         ELSE BuffersOff(SideSelect(c, pos, ok), ok)
    ELSE BufferBand(SideSelect(c, pos, ok), actual_diff, ok)

\* perform_dynamic_temperature_control
PerformDynamicTemperatureControl(s, ok) ==
    IF FloatRaises(s.temp_diff_var) \/ FloatRaises(s.hysteresis_var)
    THEN CtlEnd([s |-> s, exc |-> TRUE], "dynamic")
    ELSE LET warm_avg == GetWarmSideAverage(s)
             cold_avg == GetColdSideAverage(s)
         IN  IF warm_avg = None \/ cold_avg = None THEN s
             ELSE CtlEnd(
                      DynamicCommands(
                          CtlStart([AfterGetPosition(s) EXCEPT
                                       !.tick_warm_avg = warm_avg,
                                       !.tick_cold_avg = cold_avg]),
                          GetCurrentFishPosition(s),
                          Abs(warm_avg - cold_avg), ok),
                      "dynamic")

\* ------------------------------------------- ShuttleboxGUI: tick handler
\* a step of the tick has started
Mark(s, step) == [s EXCEPT !.tick_order = Append(@, step)]

\* record_data_point: the columns Heating_Active and Cooling_Active of the
\* row, read from the relay controller when the row is built
RecordDataPoint(s) ==
    IF ~s.recording_active THEN s
    ELSE [Mark(s, "recording") EXCEPT !.tick_row =
             [written |-> TRUE,
              heating |-> s.temp_control_controller /\ s.relay_states["HEAT"],
              cooling |-> s.temp_control_controller /\ s.relay_states["COOL"]]]

\* update_temperature_plot: the read cycle and the storing of valid samples
\* (a read on a device that is not streaming raises and is caught here)
UpdateTemperaturePlot(s, readings) ==
    IF ~s.tc08_connected THEN s
    ELSE LET s1 == ReadTemperaturesCall(s, readings)
             valid_readings ==
                 Cardinality({c \in ChannelSet : readings[c] # Invalid})
         IN  IF s1.read_error # "none" THEN s1
             ELSE IF valid_readings = 0 /\ Cardinality(ChannelSet) > 0 THEN s1
             ELSE [s1 EXCEPT !.temperature_data =
                       [c \in ChannelSet |->
                          IF readings[c] # Invalid THEN readings[c] ELSE @[c]]]

\* --------------------------------- ShuttleboxGUI: the series of the plot
Max(a, b) == IF a > b THEN a ELSE b

\* q[-n:] for n > 0, and q[Len(q) - n:] in general
LastN(q, n) == IF Len(q) > n THEN SubSeq(q, Len(q) - n + 1, Len(q)) ELSE q

\* how often "while ts and ts[0] < cutoff: ts.pop(0)" pops
Older(ts, cutoff) ==
    CHOOSE k \in 0..Len(ts) :
        /\ \A i \in 1..k : ts[i] < cutoff
        /\ k = Len(ts) \/ ts[k + 1] >= cutoff

\* q after pop(0) was applied k times, each time only if q was not empty
PopFront(q, k) == IF k >= Len(q) THEN <<>> ELSE SubSeq(q, k + 1, Len(q))

\* the entries left when those older than the cutoff are popped from the front
DropOld(ts, cutoff) == PopFront(ts, Older(ts, cutoff))

\* max_data_points
MaxDataPoints(s) ==
    Max(MinDataPoints, (s.plot_period * 1000) \div Tc08Interval)

\* the history of one channel after a valid sample: appended, entries older
\* than the plot period popped, then cut to max_data_points
ChannelHistory(s, ts) ==
    LastN(DropOld(Append(ts, s.now), s.now - s.plot_period), MaxDataPoints(s))

\* the valid readings of the channels plotted as warm (resp. cold)
PlotTemps(readings, warm) ==
    LET F[i \in 0..Len(Channels)] ==
            IF i = 0 THEN <<>>
            ELSE IF ((i - 1 < PlotWarmCount) = warm)
                    /\ readings[Channels[i]] # Invalid
                 THEN Append(F[i - 1], readings[Channels[i]])
                 ELSE F[i - 1]
    IN  F[Len(Channels)]

\* the average series while their front timestamp is older than the cutoff
EvictAverages(a, cutoff) ==
    [warm |-> PopFront(a.warm, Older(a.ts, cutoff)),
     cold |-> PopFront(a.cold, Older(a.ts, cutoff)),
     ts |-> PopFront(a.ts, Older(a.ts, cutoff))]

\* get_fish_temperature
GetFishTemperature(s) ==
    IF ~s.tc08_controller \/ ~s.plotting_active \/ ~s.ir_sensor_controller
    THEN None
    ELSE LET pos == GetCurrentFishPosition(s)
             warm_avg == GetWarmSideAverage(s)
             cold_avg == GetColdSideAverage(s)
         IN  IF warm_avg = None \/ cold_avg = None THEN None
             ELSE IF pos = 2 THEN warm_avg
             ELSE IF pos = 0 THEN (warm_avg + cold_avg) \div 2
             ELSE IF pos = 1 THEN cold_avg
             ELSE None

\* update_temperature_plot after the read cycle, step by step.
\* The history of every channel with a valid reading
AppendHistories(s, readings) ==
    [s EXCEPT !.temperature_timestamps =
        [c \in ChannelSet |->
           IF readings[c] # Invalid THEN ChannelHistory(s, @[c]) ELSE @[c]]]

\* the warm average, if a warm probe has a valid reading
AppendWarmAverage(s, readings) ==
    IF PlotTemps(readings, TRUE) # <<>>
    THEN [s EXCEPT !.warm_avg_data =
             Append(@, SumSeq(PlotTemps(readings, TRUE))
                           \div Len(PlotTemps(readings, TRUE)))]
    ELSE s

\* the timestamp of the averages, appended together with a warm average
AppendAvgTimestamp(s, readings) ==
    IF PlotTemps(readings, TRUE) # <<>>
       /\ (Len(s.avg_timestamps) = 0
           \/ Len(s.avg_timestamps) < Len(s.warm_avg_data))
    THEN [s EXCEPT !.avg_timestamps = Append(@, s.now)]
    ELSE s

\* the cold average, if a cold probe has a valid reading
AppendColdAverage(s, readings) ==
    IF PlotTemps(readings, FALSE) # <<>>
    THEN [s EXCEPT !.cold_avg_data =
             Append(@, SumSeq(PlotTemps(readings, FALSE))
                           \div Len(PlotTemps(readings, FALSE)))]
    ELSE s

\* the averages older than the plot period are popped
EvictOldAverages(s) ==
    [s EXCEPT !.warm_avg_data =
                  EvictAverages([warm |-> s.warm_avg_data,
                                 cold |-> s.cold_avg_data,
                                 ts |-> s.avg_timestamps],
                                s.now - s.plot_period).warm,
              !.cold_avg_data =
                  EvictAverages([warm |-> s.warm_avg_data,
                                 cold |-> s.cold_avg_data,
                                 ts |-> s.avg_timestamps],
                                s.now - s.plot_period).cold,
              !.avg_timestamps = DropOld(@, s.now - s.plot_period)]

\* the safety limit on the averages
LimitAverages(s) ==
    IF Len(s.avg_timestamps) > MaxDataPoints(s)
    THEN [s EXCEPT !.warm_avg_data = LastN(@, MaxDataPoints(s)),
                   !.cold_avg_data = LastN(@, MaxDataPoints(s)),
                   !.avg_timestamps = LastN(@, MaxDataPoints(s))]
    ELSE s

\* the state after get_fish_temperature asked for the position
AfterFishTemperature(s) ==
    IF s.ir_sensor_controller /\ s.tc08_controller /\ s.plotting_active
    THEN AfterGetPosition(s) ELSE s

\* the series of the fish temperature
AppendFishTemperature(s, readings) ==
    IF s.ir_sensor_controller /\ GetFishTemperature(s) # None
       /\ (PlotTemps(readings, TRUE) # <<>> \/ PlotTemps(readings, FALSE) # <<>>)
    THEN [AfterFishTemperature(s) EXCEPT !.fish_temp_data =
             LastN(Append(@, GetFishTemperature(s)),
                   Max(Len(s.warm_avg_data), Len(s.cold_avg_data)))]
    ELSE AfterFishTemperature(s)

\* the histories, the average series and the series of the fish temperature
UpdatePlotSeries(s, readings) ==
    AppendFishTemperature(
        LimitAverages(
            EvictOldAverages(
                AppendColdAverage(
                    AppendAvgTimestamp(
                        AppendWarmAverage(
                            AppendHistories(s, readings), readings),
                        readings),
                    readings))),
        readings)

\* the read cycle came back with a valid reading, so the series are updated
SeriesReached(s, readings) ==
    /\ s.tc08_connected /\ s.tc08_streaming
    /\ \E c \in ChannelSet : readings[c] # Invalid

\* stop_recording
StopRecording(s) ==
    [s EXCEPT !.recording_active = FALSE, !.monitoring_active = FALSE]

\* the block of check_arduino_connections that stops operations for safety
SafetyStop(s) ==
    LET s1 == [s EXCEPT !.safety_stop_invoked = TRUE, !.episode_stops = @ + 1,
                        !.stops_total = IF @ < 2 THEN @ + 1 ELSE @]
        s2 == IF s1.recording_active THEN StopRecording(s1) ELSE s1
    IN  IF s2.static_control_active
        THEN [s2 EXCEPT !.static_control_active = FALSE,
                        !.status_written = "lost"]
        ELSE s2

\* (a latch that is never set)
LatchNeverSet(s) == s
\* the one-shot latch of a link: set on the first unhealthy check
LatchSet(s) == [s EXCEPT !.ir_warning_shown = TRUE]

\* check_arduino_connections, position-sensor part
CheckIRConnection(s) ==
    IF ~s.ir_sensor_controller THEN s
    ELSE LET healthy == IsConnectionHealthy(s)
             s1 == AfterHealthCheck(s)
         IN  IF ~healthy
             THEN LET s2 == [s1 EXCEPT !.tick_ir_health = "unhealthy"]
                  IN  IF ~s2.ir_warning_shown
                      THEN IF s2.monitoring_active \/ s2.recording_active
                           THEN SafetyStop(LatchSet(s2))
                           ELSE LatchSet(s2)
                      ELSE s2
             ELSE [s1 EXCEPT !.tick_ir_health = "healthy",
                             !.ir_warning_shown = FALSE,
                             !.episode_stops = 0]

\* check_arduino_connections, relay-controller part
CheckDAQConnection(s) ==
    IF ~s.temp_control_controller THEN s
    ELSE IF ~DaqConnectionHealthy(s)
    THEN IF ~s.temp_warning_shown
         THEN LET s1 == [s EXCEPT !.temp_warning_shown = TRUE]
              IN  IF s1.monitoring_active \/ s1.recording_active
                  THEN SafetyStop(s1) ELSE s1
         ELSE s
    ELSE [s EXCEPT !.temp_warning_shown = FALSE]

CheckArduinoConnections(s) ==
    CheckDAQConnection(CheckIRConnection(Mark(s, "health")))

\* (a control evaluation that does not look at the mode)
ControlEvaluationAlways(s, ok) ==
    IF s.plotting_active THEN PerformStaticTemperatureControl(s, ok) ELSE s
\* the control evaluation of one tick
ControlEvaluation(s, ok) ==
    IF s.static_control_active /\ s.plotting_active
    THEN PerformStaticTemperatureControl(Mark(s, "control"), ok)
    ELSE IF s.dynamic_control_active /\ s.plotting_active
    THEN PerformDynamicTemperatureControl(Mark(s, "control"), ok)
    ELSE s

\* update_ir_visualization: asks for the position, then for the sensor data
UpdateIRVisualization(s) ==
    LET s1 == AfterGetPosition(s)
    IN  IF s1.ir_sensor_controller THEN GetLatestData(s1) ELSE s1

\* update_gui, first statement: the read cycle while plotting
Sample(s, readings) ==
    IF s.plotting_active /\ s.tc08_controller
    THEN UpdateTemperaturePlot(Mark(s, "sampling"), readings) ELSE s

\* update_gui: the position display, with a sensor or in manual mode
DisplayPosition(s) ==
    IF s.ir_sensor_controller \/ s.persistent_manual_mode
    THEN UpdateIRVisualization(s) ELSE s

\* update_gui: sampling, recording, control evaluation, position display,
\* link health
UpdateGui(s, readings, ok) ==
    Only({CheckArduinoConnections(s3) :
          s3 \in {DisplayPosition(s2) :
          s2 \in {ControlEvaluation(s1r, ok) :
          s1r \in {RecordDataPoint(s1) :
          s1 \in {Sample(s0, readings) : s0 \in {s}}}}}})

\* the stages of update_gui after which an exception can reach the handler
\* around its body
Stages == {"sampling", "control", "position"}

\* update_gui cut short: an exception raised after the given stage skips
\* the rest of the body
UpdateGuiRaised(s, readings, ok, stage) ==
    Only({IF stage = "sampling" THEN s1
          ELSE Only({IF stage = "control" THEN s2 ELSE Mark(s2, "position") :
                     s2 \in {ControlEvaluation(s1r, ok) :
                     s1r \in {RecordDataPoint(s1)}}}) :
          s1 \in {Sample(s0, readings) : s0 \in {s}}})

\* the root.after callback of update_gui fires
TimerFired(s) == [s EXCEPT !.update_timers = @ - 1]

\* (the next tick scheduled inside the try block: skipped by an exception)
ScheduleNextInsideTry(s, raised) ==
    IF raised THEN s ELSE [s EXCEPT !.update_timers = @ + 1]

\* update_gui, last statement: root.after(1000, self.update_gui), reached
\* whether or not the body raised
ScheduleNext(s, raised) == [s EXCEPT !.update_timers = @ + 1]

\* update_gui with the series of the plot followed as well
UpdateGuiSeries(s, readings, ok) ==
    Only({CheckArduinoConnections(s3) :
          s3 \in {DisplayPosition(s2) :
          s2 \in {ControlEvaluation(s1r, ok) :
          s1r \in {RecordDataPoint(s1) :
          s1 \in {IF s0.plotting_active /\ s0.tc08_controller
                      /\ SeriesReached(s0, readings)
                  THEN UpdatePlotSeries(Sample(s0, readings), readings)
                  ELSE Sample(s0, readings) : s0 \in {s}}}}}})

\* ------------------------------------- ShuttleboxGUI: operator handlers
\* emergency_stop
EmergencyStop(s, ok) ==
    LET s1 == IF s.temp_control_controller THEN DaqEmergencyStop(s, ok) ELSE s
    IN  [s1 EXCEPT !.static_control_active = FALSE,
                   !.dynamic_control_active = FALSE,
                   !.difference_control_active = FALSE,
                   !.status_written = "emergency"]

\* manual_temp_control
ManualTempControl(s, control_type, enable, ok) ==
    IF ~s.temp_control_controller THEN s
    ELSE IF control_type = "heat" THEN WriteDigitalLine(s, "HEAT", enable, ok)
    ELSE IF control_type = "cool" THEN WriteDigitalLine(s, "COOL", enable, ok)
    ELSE s

\* the mode in force when a mode button is pressed
ModeOf(s) ==
    IF s.static_control_active THEN "static"
    ELSE IF s.dynamic_control_active THEN "dynamic" ELSE "manual"

\* a request to start a mode is turned down
RejectStart(s) == [s EXCEPT !.start_rejected = TRUE]

\* (the averages are not looked at)
AveragesAssumed(s) == TRUE
\* both averages are there when a mode is started
AveragesAvailable(s) ==
    GetWarmSideAverage(s) # None /\ GetColdSideAverage(s) # None

\* toggle_static_control
ToggleStaticControl(s, ok) ==
    LET s0 == [s EXCEPT !.mode_before = ModeOf(s)]
    IN  IF ~s0.tc08_controller \/ ~s0.plotting_active
        THEN IF s0.static_control_active THEN s0 ELSE RejectStart(s0)
        ELSE IF ~s0.temp_control_controller
        THEN IF s0.static_control_active THEN s0 ELSE RejectStart(s0)
        ELSE IF s0.static_control_active
        THEN DaqEmergencyStop([s0 EXCEPT !.static_control_active = FALSE,
                                         !.status_written = "manual"], ok)
        ELSE IF FloatRaises(s0.start_temp_var) \/ FloatRaises(s0.hysteresis_var)
                \/ FloatRaises(s0.temp_diff_var)
        THEN RejectStart(s0)
        ELSE IF ~AveragesAvailable(s0) THEN RejectStart(s0)
        ELSE LET s1 == IF s0.dynamic_control_active
                       THEN [s0 EXCEPT !.dynamic_control_active = FALSE,
                                       !.difference_control_active = FALSE]
                       ELSE s0
             IN  [s1 EXCEPT !.static_control_active = TRUE,
                            !.status_written = "static"]

\* (Static is left running)
KeepStatic(s) == s
\* toggle_dynamic_control: stop static control if active
StopStaticIfActive(s) ==
    IF s.static_control_active
    THEN [s EXCEPT !.static_control_active = FALSE] ELSE s

\* toggle_dynamic_control
ToggleDynamicControl(s, ok) ==
    LET s0 == [s EXCEPT !.mode_before = ModeOf(s)]
    IN  IF ~s0.tc08_controller \/ ~s0.plotting_active
        THEN IF s0.dynamic_control_active THEN s0 ELSE RejectStart(s0)
        ELSE IF ~s0.temp_control_controller
        THEN IF s0.dynamic_control_active THEN s0 ELSE RejectStart(s0)
        ELSE IF ~s0.ir_sensor_controller /\ ~s0.persistent_manual_mode
        THEN IF s0.dynamic_control_active THEN s0 ELSE RejectStart(s0)
        ELSE IF s0.dynamic_control_active
        THEN DaqEmergencyStop([s0 EXCEPT !.dynamic_control_active = FALSE,
                                         !.difference_control_active = FALSE,
                                         !.status_written = "manual"], ok)
        ELSE IF FloatRaises(s0.temp_diff_var) THEN RejectStart(s0)
        ELSE IF ~AveragesAvailable(s0) THEN RejectStart(s0)
        ELSE LET current_position == GetCurrentFishPosition(s0)
                 s1 == AfterGetPosition(s0)
             IN  IF current_position \notin Positions THEN RejectStart(s1)
                 ELSE [StopStaticIfActive(s1)
                          EXCEPT !.dynamic_control_active = TRUE,
                                 !.status_written = "dynamic"]

\* toggle_difference_control
ToggleDifferenceControl(s) ==
    IF ~s.dynamic_control_active THEN s
    ELSE IF FloatRaises(s.temp_diff_var)
    THEN [s EXCEPT !.difference_control_active = ~@]
    ELSE [s EXCEPT !.difference_control_active = ~@,
                   !.status_written = "dynamic"]

\* ------------------------------------ ShuttleboxGUI: device connections
\* connect_tc08: a new controller; connect() and start_streaming() succeed
\* or fail
ConnectTC08(s, connect_ok, stream_ok) ==
    LET s1 == [s EXCEPT !.tc08_controller = TRUE, !.tc08_connected = FALSE,
                        !.tc08_streaming = FALSE,
                        !.consecutive_read_failures = 0,
                        !.total_read_failures = 0, !.failure_streak = 0]
    IN  IF ~connect_ok THEN s1
        ELSE LET s2 == [s1 EXCEPT !.tc08_connected = TRUE,
                           !.temperature_data = [c \in ChannelSet |-> None],
                           !.temperature_timestamps = [c \in ChannelSet |-> <<>>]]
             IN  IF stream_ok
                 THEN [s2 EXCEPT !.tc08_streaming = TRUE, !.plotting_active = TRUE]
                 ELSE s2

\* connect_tc08 after the rows of the channel configuration were edited,
\* with a device that does not answer: without an enabled row the handler
\* returns at once, otherwise the channel list is stored before the connect
ConnectTC08Rows(s, enabled) ==
    IF enabled = {} THEN s
    ELSE [ConnectTC08(s, FALSE, FALSE) EXCEPT
              !.tc08_channels = ParseChannels(enabled)]

\* disconnect_tc08
DisconnectTC08(s, ok) ==
    LET s1 == IF s.static_control_active
              THEN LET s0 == [s EXCEPT !.static_control_active = FALSE,
                                       !.status_written = "tc08_disconnected"]
                   IN  IF s0.temp_control_controller
                       THEN DaqEmergencyStop(s0, ok) ELSE s0
              ELSE s
    IN  [s1 EXCEPT !.plotting_active = FALSE, !.tc08_controller = FALSE,
                   !.tc08_connected = FALSE, !.tc08_streaming = FALSE,
                   !.consecutive_read_failures = 0, !.total_read_failures = 0,
                   !.failure_streak = 0]

\* connect_ir_sensor: a new IRSensorController; a failed connect drops it
ConnectIRSensor(s, connect_ok) ==
    LET s1 == [s EXCEPT !.last_heartbeat = None, !.connection_lost = FALSE,
                        !.message_queue = <<>>, !.fish_position = 0,
                        !.reader_pc = "idle",
                        !.hb_done_at = None, !.episode_stops = 0,
                        !.sensor_reported = None, !.correction_at = None,
                        !.correction_value = None, !.correction_kind = "none",
                        !.received_position = None]
    IN  IF connect_ok
        THEN [s1 EXCEPT !.ir_sensor_controller = TRUE, !.ir_connected = TRUE,
                        !.ir_running = TRUE, !.ir_warning_shown = FALSE]
        ELSE [s1 EXCEPT !.ir_sensor_controller = FALSE, !.ir_connected = FALSE,
                        !.ir_running = FALSE]

\* disconnect_ir_sensor: the controller is dropped, and what its reader
\* thread still writes goes to the dropped object
DisconnectIRSensor(s) ==
    [s EXCEPT !.ir_sensor_controller = FALSE, !.ir_connected = FALSE,
              !.ir_running = FALSE, !.last_heartbeat = None,
              !.connection_lost = FALSE, !.message_queue = <<>>,
              !.fish_position = 0, !.reader_pc = "idle", !.hb_done_at = None,
              !.sensor_reported = None, !.correction_at = None,
              !.correction_value = None, !.correction_kind = "none",
              !.received_position = None]

\* connect_temp_control: a new DAQTempController; a failed connect drops it
ConnectTempControl(s, connect_ok) ==
    LET s1 == [s EXCEPT !.relay_states = AllOff, !.desired_states = AllOff]
    IN  IF connect_ok
        THEN [s1 EXCEPT !.temp_control_controller = TRUE,
                        !.temp_warning_shown = FALSE]
        ELSE [s1 EXCEPT !.temp_control_controller = FALSE]

\* disconnect_temp_control: emergency stop, then the controller is dropped
DisconnectTempControl(s, ok) ==
    IF s.temp_control_controller
    THEN [DaqEmergencyStop(s, ok) EXCEPT !.temp_control_controller = FALSE,
              !.relay_states = AllOff, !.desired_states = AllOff]
    ELSE s

\* start_recording
StartRecording(s, stream_ok) ==
    IF ~s.tc08_controller \/ ~s.ir_sensor_controller
       \/ ~s.temp_control_controller THEN s
    ELSE IF ~s.plotting_active /\ ~(s.tc08_connected /\ (s.tc08_streaming \/ stream_ok))
    THEN s
    ELSE [s EXCEPT !.tc08_streaming = TRUE, !.plotting_active = TRUE,
                   !.recording_active = TRUE, !.monitoring_active = TRUE,
                   !.temperature_data = [c \in ChannelSet |-> None],
                   !.temperature_timestamps = [c \in ChannelSet |-> <<>>],
                   !.warm_avg_data = <<>>, !.cold_avg_data = <<>>,
                   !.avg_timestamps = <<>>, !.fish_temp_data = <<>>]

\* ---------------------------------------- SerialDevice: reader thread
\* _read_messages on a HEARTBEAT line, run without interruption
ReadHeartbeat(s) ==
    [s EXCEPT !.last_heartbeat = s.now, !.connection_lost = FALSE,
              !.hb_done_at = s.now]

\* _read_messages on any other line
ReadMessage(s, m) ==
    [s EXCEPT !.message_queue = Append(@, m),
              !.received_position =
                  CASE m \in {"POSITION:0", "0"} -> 0
                    [] m \in {"POSITION:1", "1"} -> 1
                    [] m \in {"POSITION:2", "2"} -> 2
                    [] OTHER -> @]

\* _read_messages on a line that is not empty
ReadLine(s, m) ==
    IF m = "HEARTBEAT" THEN ReadHeartbeat(s) ELSE ReadMessage(s, m)

\* get_latest_data, one pass of its loop: the oldest line is taken from the
\* queue and processed
DrainTake(s) ==
    [s EXCEPT !.fish_position = ProcessMessage(@, Head(s.message_queue)),
              !.sensor_reported = ProcessMessage(@, Head(s.message_queue)),
              !.message_queue = Tail(@)]

\* SerialDevice.connect that succeeds, as connect_ir_sensor calls it on a new
\* controller: the port is open, the flags are set, the reader thread starts
SerialConnect(s) ==
    [ConnectIRSensor(s, TRUE) EXCEPT !.serial_open = TRUE,
                                     !.read_loop = "while"]

\* SerialDevice.disconnect
SerialDisconnect(s) ==
    [s EXCEPT !.ir_running = FALSE, !.ir_connected = FALSE,
              !.serial_open = FALSE]

\* what readline().decode().strip() gives: a line, nothing within the
\* timeout of the port, or bytes that decode() refuses
Undecodable == "undecodable"
ReadOutcomes == Lines \cup {"", Undecodable}

\* _read_messages: the condition of its while loop
LoopCondition(s) == s.ir_running /\ s.serial_open

\* (a loop that starts over where it should end)
ReaderExitRestart(s) == [s EXCEPT !.read_loop = "sleep"]
\* _read_messages returns: the loop condition failed, or break
ReaderExit(s) == [s EXCEPT !.read_loop = "ended"]

\* _read_messages, the test of the loop
ReaderWhile(s) ==
    IF LoopCondition(s) THEN [s EXCEPT !.read_loop = "in_waiting"]
    ELSE ReaderExit(s)

\* _read_messages, in_waiting > 0: raises on a closed port
ReaderInWaiting(s, waiting) ==
    IF ~s.serial_open THEN ReaderExit(s)
    ELSE IF waiting THEN [s EXCEPT !.read_loop = "readline"]
    ELSE [s EXCEPT !.read_loop = "sleep"]

\* _read_messages, readline and what is done with the line
ReaderReadline(s, m) ==
    IF ~s.serial_open \/ m = Undecodable THEN ReaderExit(s)
    ELSE IF m = "" THEN [s EXCEPT !.read_loop = "sleep"]
    ELSE [ReadLine(s, m) EXCEPT !.read_loop = "sleep"]

\* _read_messages, time.sleep(0.01)
ReaderSleep(s) == [s EXCEPT !.read_loop = "while"]

\* ------------------------------------------------------------- actions
\* readings of one read cycle with at least one valid channel
SomeValid == {r \in SideReadings : \E c \in ChannelSet : r[c] # Invalid}

\* the periodic tick: update_gui runs to completion
Tick(R, W) ==
    \E readings \in R, ok \in W :
        \E s \in {ScheduleNext(UpdateGui(TimerFired(Begin(St)), readings, ok),
                                FALSE)} :
            /\ update_timers >= 1
            /\ s.total_read_failures <= MaxFailures
            /\ Commit("update_gui", s)

\* the periodic tick in which an exception reaches the handler around the
\* body of update_gui
TickRaised(R, W) ==
    \E readings \in R, ok \in W, stage \in Stages :
        \E s \in {ScheduleNext(UpdateGuiRaised(TimerFired(Begin(St)),
                                                readings, ok, stage), TRUE)} :
            /\ update_timers >= 1
            /\ s.total_read_failures <= MaxFailures
            /\ Commit("update_gui_raised", s)

DoEmergencyStop(W) ==
    \E ok \in W : Commit("emergency_stop", EmergencyStop(Begin(St), ok))

DoManualTempControl(W) ==
    \E control_type \in {"heat", "cool"}, enable \in BOOLEAN, ok \in W :
        /\ temp_control_controller
        /\ Commit("manual_temp_control",
                  ManualTempControl(Begin(St), control_type, enable, ok))

DoToggleStaticControl(W) ==
    \E ok \in W :
        /\ tc08_controller /\ plotting_active /\ temp_control_controller
        /\ Commit("toggle_static_control", ToggleStaticControl(Begin(St), ok))

DoToggleDynamicControl(W) ==
    \E ok \in W :
        /\ tc08_controller /\ plotting_active /\ temp_control_controller
        /\ Commit("toggle_dynamic_control", ToggleDynamicControl(Begin(St), ok))

DoToggleDifferenceControl ==
    /\ dynamic_control_active
    /\ Commit("toggle_difference_control", ToggleDifferenceControl(Begin(St)))

\* the connection buttons are disabled while a recording runs
DoConnectTC08 ==
    \E connect_ok \in BOOLEAN, stream_ok \in BOOLEAN :
        /\ ~recording_active
        /\ ~(tc08_controller /\ tc08_connected)
        /\ Commit("connect_tc08", ConnectTC08(Begin(St), connect_ok, stream_ok))

DoConnectTC08Rows ==
    \E enabled \in SUBSET ChannelNumbers :
        /\ Cardinality(enabled) <= ConfigRows
        /\ ~recording_active
        /\ ~(tc08_controller /\ tc08_connected)
        /\ Commit("connect_tc08", ConnectTC08Rows(Begin(St), enabled))

\* a caller reads the device through the controller
DoReadTemperatures(R) ==
    \E readings \in R :
        /\ tc08_controller
        /\ total_read_failures < MaxFailures
        /\ Commit("read_temperatures",
                  ReadTemperaturesCall(Begin(St), readings))

DoDisconnectTC08(W) ==
    \E ok \in W :
        /\ ~recording_active
        /\ tc08_controller /\ tc08_connected
        /\ Commit("disconnect_tc08", DisconnectTC08(Begin(St), ok))

DoConnectIRSensor ==
    \E connect_ok \in BOOLEAN :
        /\ ~recording_active
        /\ ~ir_sensor_controller
        /\ Commit("connect_ir_sensor", ConnectIRSensor(Begin(St), connect_ok))

DoDisconnectIRSensor ==
    /\ ~recording_active
    /\ ir_sensor_controller
    /\ hc_pc = "idle" /\ drain_pc = "idle"
    /\ Commit("disconnect_ir_sensor", DisconnectIRSensor(Begin(St)))

DoConnectTempControl ==
    \E connect_ok \in BOOLEAN :
        /\ ~recording_active
        /\ ~temp_control_controller
        /\ Commit("connect_temp_control", ConnectTempControl(Begin(St), connect_ok))

DoDisconnectTempControl(W) ==
    \E ok \in W :
        /\ ~recording_active
        /\ temp_control_controller
        /\ Commit("disconnect_temp_control", DisconnectTempControl(Begin(St), ok))

\* the start button is enabled when the three devices are connected
DoStartRecording ==
    \E stream_ok \in BOOLEAN :
        /\ ~recording_active
        /\ tc08_controller /\ tc08_connected
        /\ ir_sensor_controller /\ ir_connected
        /\ temp_control_controller
        /\ Commit("start_recording", StartRecording(Begin(St), stream_ok))

DoStopRecording ==
    /\ recording_active
    /\ Commit("stop_recording", StopRecording(Begin(St)))

\* the clock advances between handlers
Advance(D) ==
    \E d \in D :
        /\ now + d <= MaxTime
        /\ hc_pc = "idle" /\ reader_pc = "idle"
        /\ Commit("clock", [Begin(St) EXCEPT !.now = now + d])

\* the reader thread takes a HEARTBEAT line
DoReadHeartbeat ==
    /\ ir_running /\ reader_pc = "idle"
    /\ Commit("heartbeat", ReadHeartbeat(Begin(St)))

\* the reader thread takes another line
DoReadMessage ==
    \E m \in Messages :
        /\ ir_running /\ reader_pc = "idle"
        /\ Len(message_queue) < MaxQueue
        /\ Commit("message", ReadMessage(Begin(St), m))

\* the reader thread takes a line of any kind
DoReadLine ==
    \E m \in Lines :
        /\ ir_running /\ reader_pc = "idle"
        /\ Len(message_queue) < MaxInbound
        /\ Commit("line", ReadLine(Begin(St), m))

\* the tick thread enters get_latest_data
DrainEnter ==
    /\ ir_sensor_controller /\ drain_pc = "idle"
    /\ Commit("drain_enter", [Begin(St) EXCEPT !.drain_pc = "loop"])

\* the loop of get_latest_data finds a line in the queue
DoDrainTake ==
    /\ drain_pc = "loop" /\ message_queue # <<>>
    /\ Commit("drain_take", DrainTake(Begin(St)))

\* the loop of get_latest_data finds the queue empty and returns
DrainReturn ==
    /\ drain_pc = "loop" /\ message_queue = <<>>
    /\ Commit("get_latest_data", [Begin(St) EXCEPT !.drain_pc = "idle"])

\* the periodic tick with the series of the plot, run TickPeriod after the
\* tick before it; a series is followed up to MaxSeries entries
TickSeries(R, W) ==
    \E readings \in R, ok \in W :
        \E s \in {ScheduleNext(
                      UpdateGuiSeries(
                          TimerFired([Begin(St) EXCEPT !.now = @ + TickPeriod]),
                          readings, ok), FALSE)} :
            /\ update_timers >= 1
            /\ now + TickPeriod <= MaxTime
            /\ s.total_read_failures <= MaxFailures
            /\ Len(s.warm_avg_data) <= MaxSeries
            /\ Len(s.cold_avg_data) <= MaxSeries
            /\ Len(s.fish_temp_data) <= MaxSeries
            /\ \A c \in ChannelSet :
                   Len(s.temperature_timestamps[c]) <= MaxSeries
            /\ Commit("update_gui", s)

\* the operator enters a plot period before anything is plotted
DoSetPlotPeriod ==
    \E p \in PlotPeriods :
        /\ ~tc08_controller /\ p # plot_period
        /\ Commit("plot_period", [Begin(St) EXCEPT !.plot_period = p])

\* the operator picks the other start side in the combobox
DoSetStartSide ==
    \E side \in StartSides :
        /\ side # start_side_var
        /\ ~recording_active
        /\ Commit("start_side", [Begin(St) EXCEPT !.start_side_var = side])

\* the operator leaves another text in the difference field
DoSetTempDiff ==
    \E text \in TempDiffTexts :
        /\ text # temp_diff_var
        /\ ~recording_active
        /\ Commit("temp_diff", [Begin(St) EXCEPT !.temp_diff_var = text])

\* a position button is pressed
DoSetManualFishPosition ==
    \E position \in Positions, result \in BOOLEAN :
        Commit("set_manual_fish_position",
               SetManualFishPosition(Begin(St), position, result))

\* a pending callback of a momentary correction fires when it is due
FireReturnToAutomatic ==
    \E t \in override_timers :
        /\ t <= now
        /\ Commit("return_to_automatic",
                  [ReturnToAutomaticAfterCorrection(Begin(St))
                      EXCEPT !.override_timers = @ \ {t}])

\* the checkbox of the persistent manual mode is clicked
DoTogglePersistentManualControl ==
    Commit("toggle_persistent_manual_control",
           TogglePersistentManualControl(Begin(St)))

\* a second passes; a callback that is due runs before the clock moves on
Wait ==
    /\ now < MaxCorrectionTime
    /\ \A t \in override_timers : t > now
    /\ hc_pc = "idle" /\ reader_pc = "idle"
    /\ Commit("clock", [Begin(St) EXCEPT !.now = now + 1])

\* ------------------------------------------------------ specifications
\* the control core on reliable outputs
Next ==
    \/ Tick(SomeValid, {AllOk})
    \/ DoEmergencyStop({AllOk})
    \/ DoManualTempControl({AllOk})
    \/ DoToggleStaticControl({AllOk})
    \/ DoToggleDynamicControl({AllOk})
    \/ DoToggleDifferenceControl
    \/ DoConnectTC08
    \/ DoDisconnectTC08({AllOk})
    \/ DoConnectIRSensor
    \/ DoDisconnectIRSensor
    \/ DoConnectTempControl
    \/ DoDisconnectTempControl({AllOk})
    \/ DoReadMessage

Spec == Init /\ [][Next]_vars

\* outputs on which the write to at most one line fails
OneFault == {ok \in WriteOutcomes : Cardinality({r \in Relays : ~ok[r]}) <= 1}
\* one read cycle in which both sides are between their targets
MidReadings == {[c \in ChannelSet |-> 240]}

\* the control core on outputs whose writes can fail
NextFault ==
    \/ Tick(MidReadings, OneFault)
    \/ DoEmergencyStop(OneFault)
    \/ DoManualTempControl(OneFault)
    \/ DoToggleStaticControl(OneFault)
    \/ DoToggleDynamicControl(OneFault)
    \/ DoToggleDifferenceControl
    \/ DoConnectTC08
    \/ DoDisconnectTC08(OneFault)
    \/ DoConnectIRSensor
    \/ DoDisconnectIRSensor
    \/ DoConnectTempControl
    \/ DoDisconnectTempControl(OneFault)
    \/ DoReadMessage

SpecFault == Init /\ [][NextFault]_vars

\* the supervision of the links: the control core with the clock, the
\* heartbeats of the position sensor and the recording session
NextHealth ==
    \/ Tick(MidReadings, {AllOk})
    \/ Advance({HeartbeatTimeout + 1})
    \/ DoReadHeartbeat
    \/ DoStartRecording
    \/ DoStopRecording
    \/ DoEmergencyStop({AllOk})
    \/ DoToggleStaticControl({AllOk})
    \/ DoToggleDynamicControl({AllOk})
    \/ DoToggleDifferenceControl
    \/ DoConnectTC08
    \/ DoDisconnectTC08({AllOk})
    \/ DoConnectIRSensor
    \/ DoDisconnectIRSensor
    \/ DoConnectTempControl
    \/ DoDisconnectTempControl({AllOk})

SpecHealth == Init /\ [][NextHealth]_vars

\* the mode state machine: every handler that writes a mode flag, on
\* steady temperatures and with the operator as a position source
NextModes ==
    \/ Tick(MidReadings, {AllOk})
    \/ DoEmergencyStop({AllOk})
    \/ DoManualTempControl({AllOk})
    \/ DoToggleStaticControl({AllOk})
    \/ DoToggleDynamicControl({AllOk})
    \/ DoToggleDifferenceControl
    \/ DoTogglePersistentManualControl
    \/ DoConnectTC08
    \/ DoDisconnectTC08({AllOk})
    \/ DoConnectIRSensor
    \/ DoDisconnectIRSensor
    \/ DoConnectTempControl
    \/ DoDisconnectTempControl({AllOk})

SpecModes == Init /\ [][NextModes]_vars

\* read cycles that are fine or fail on every channel
StarvedReadings == MidReadings \cup {NoReadings}

\* automatic control on an acquisition link that stops delivering
NextStarved ==
    \/ Tick(StarvedReadings, {AllOk})
    \/ DoConnectTC08
    \/ DoDisconnectTC08({AllOk})
    \/ DoConnectTempControl
    \/ DoConnectIRSensor
    \/ DoToggleStaticControl({AllOk})
    \/ DoToggleDynamicControl({AllOk})
    \/ DoEmergencyStop({AllOk})

SpecStarved == Init /\ [][NextStarved]_vars

\* the position sources: the sensor, momentary corrections and the
\* persistent manual mode
NextOverride ==
    \/ Tick(MidReadings, {AllOk})
    \/ Wait
    \/ DoConnectIRSensor
    \/ DoReadMessage
    \/ DoSetManualFishPosition
    \/ FireReturnToAutomatic
    \/ DoTogglePersistentManualControl

SpecOverride == Init /\ [][NextOverride]_vars

\* read cycles in which the probes of the cold tank read 24.0 and those of
\* the warm tank all read 24.0 or all fail
PlotReadings ==
    {r \in SideReadings :
        /\ \A c \in WarmChannels : r[c] \in {240, Invalid}
        /\ \A c \in ColdChannels : r[c] = 240}

\* the series of the plot from the connection of the acquisition device on;
\* the plot period is entered, and the position sensor, if used, connected
\* before it
NextPlot ==
    \/ (tc08_controller /\ TickSeries(PlotReadings, {AllOk}))
    \/ DoSetPlotPeriod
    \/ (~tc08_controller /\ DoConnectTC08)
    \/ (~tc08_controller /\ DoConnectIRSensor)

SpecPlot == Init /\ [][NextPlot]_vars

\* read cycles in which every probe reads its own value or fails
AverageReadings ==
    {r \in [ChannelSet -> {230, 240, 251, 260, Invalid}] :
        /\ r[Channels[1]] \in {230, 260, Invalid}
        /\ r[Channels[2]] \in {230, 260, Invalid}
        /\ r[Channels[3]] \in {230, Invalid}
        /\ r[Channels[4]] \in {240, Invalid}
        /\ r[Channels[5]] \in {251, Invalid}
        /\ r[Channels[6]] \in {251, Invalid}}

\* the acquisition device connected and disconnected between read cycles
\* whose probes fail one by one
NextAverages ==
    \/ Tick(AverageReadings, {AllOk})
    \/ DoConnectTC08
    \/ DoDisconnectTC08({AllOk})

SpecAverages == Init /\ [][NextAverages]_vars

\* read cycles in which the warm tank reads 26.3 or fails and the cold tank
\* reads 23.0 or fails
FishReadings ==
    {r \in SideReadings :
        /\ \A c \in WarmChannels : r[c] \in {263, Invalid}
        /\ \A c \in ColdChannels : r[c] \in {230, Invalid}}

\* the position given by hand in the persistent manual mode, with or
\* without the position sensor, while the tanks are read
NextFish ==
    \/ Tick(FishReadings, {AllOk})
    \/ (~tc08_controller /\ DoConnectTC08)
    \/ DoConnectIRSensor
    \/ DoTogglePersistentManualControl
    \/ (persistent_manual_mode /\ DoSetManualFishPosition)

SpecFish == Init /\ [][NextFish]_vars

\* the acquisition device read by the tick and read directly, whatever the
\* state of its connection
NextDevice ==
    \/ Tick(ValidityReadings, {AllOk})
    \/ DoReadTemperatures(ValidityReadings)
    \/ DoConnectTC08
    \/ DoDisconnectTC08({AllOk})

SpecDevice == Init /\ [][NextDevice]_vars

\* the tick loop: ticks that run to their end and ticks cut short by an
\* exception, between the handlers of the control modes
TimerFires ==
    \/ Tick(MidReadings, {AllOk})
    \/ TickRaised(MidReadings, {AllOk})

NextLoop ==
    \/ Tick(MidReadings, {AllOk})
    \/ TickRaised(MidReadings, {AllOk})
    \/ DoSetTempDiff
    \/ DoConnectTC08
    \/ DoDisconnectTC08({AllOk})
    \/ DoConnectTempControl
    \/ DoDisconnectTempControl({AllOk})
    \/ DoToggleStaticControl({AllOk})
    \/ DoToggleDynamicControl({AllOk})
    \/ DoTogglePersistentManualControl

\* the event loop runs a callback that is due
SpecLoop == Init /\ [][NextLoop]_vars /\ WF_vars(TimerFires)

\* the position sensor: its reader thread takes lines while the tick thread
\* drains the queue
NextSensor ==
    \/ DoConnectIRSensor
    \/ DoDisconnectIRSensor
    \/ DoReadLine
    \/ DrainEnter
    \/ DoDrainTake
    \/ DrainReturn

SpecSensor == Init /\ [][NextSensor]_vars

\* one SerialDevice from connect to the end of its reader thread
DoSerialConnect ==
    /\ read_loop = "not_started"
    /\ Commit("serial_connect", SerialConnect(Begin(St)))

DoSerialDisconnect ==
    /\ read_loop # "not_started"
    /\ Commit("serial_disconnect", SerialDisconnect(Begin(St)))

ReaderWhileStep ==
    /\ read_loop = "while"
    /\ Commit("read_messages", ReaderWhile(Begin(St)))

ReaderInWaitingStep ==
    \E waiting \in BOOLEAN :
        /\ read_loop = "in_waiting"
        /\ Commit("read_messages", ReaderInWaiting(Begin(St), waiting))

ReaderReadlineStep ==
    \E m \in ReadOutcomes :
        /\ read_loop = "readline"
        /\ m \in Lines \ {"HEARTBEAT"} => Len(message_queue) < MaxInbound
        /\ Commit("read_messages", ReaderReadline(Begin(St), m))

ReaderSleepStep ==
    /\ read_loop = "sleep"
    /\ Commit("read_messages", ReaderSleep(Begin(St)))

\* the steps of the reader thread
ReaderStep ==
    \/ ReaderWhileStep
    \/ ReaderInWaitingStep
    \/ ReaderReadlineStep
    \/ ReaderSleepStep

NextReader ==
    \/ DoSerialConnect
    \/ DoSerialDisconnect
    \/ ReaderWhileStep
    \/ ReaderInWaitingStep
    \/ ReaderReadlineStep
    \/ ReaderSleepStep

\* the reader thread is scheduled again and again while it has a step to
\* take
SpecReader == Init /\ [][NextReader]_vars /\ WF_vars(ReaderStep)

\* the channel configuration edited before connection attempts
NextSubsets ==
    \/ DoConnectTC08Rows

SpecSubsets == Init /\ [][NextSubsets]_vars

\* temperatures of the warm and of the cold tank around the targets and the
\* bands of the default settings
WarmControlTemps == {230, 249, 250, 263}
ColdControlTemps == {228, 230, 231, 250}
\* read cycles in which every probe is valid and the probes of a tank agree
ControlReadings ==
    {[c \in ChannelSet |-> IF c \in WarmChannels THEN w ELSE k] :
        w \in WarmControlTemps, k \in ColdControlTemps}

\* the control evaluations: the settings, the three modes, the position
\* given by hand, and the relay controller coming and going
NextControl ==
    \/ Tick(ControlReadings, {AllOk})
    \/ DoSetStartSide
    \/ DoSetTempDiff
    \/ (~tc08_controller /\ DoConnectTC08)
    \/ DoConnectTempControl
    \/ DoDisconnectTempControl({AllOk})
    \/ DoToggleStaticControl({AllOk})
    \/ DoToggleDynamicControl({AllOk})
    \/ DoToggleDifferenceControl
    \/ DoTogglePersistentManualControl
    \/ (persistent_manual_mode /\ DoSetManualFishPosition)

SpecControl == Init /\ [][NextControl]_vars

\* ------------------------------------------------------------- claims
Manual ==
    ~static_control_active /\ ~dynamic_control_active /\ ~difference_control_active

\* C1: after emergency_stop, from any state and also when a write to a relay
\* fails, the four desired relay states are false and the mode is Manual.
C1_EmergencyStopAllOff ==
    lastOp = "emergency_stop" =>
        (\A r \in Relays : ~desired_states[r]) /\ Manual

\* C2: while Dynamic is active without difference control, the Heat relay
\* and the Cool relay are never both on.
C2_DynamicExclusion ==
    (dynamic_control_active /\ ~difference_control_active) =>
        ~(relay_states["HEAT"] /\ relay_states["COOL"])

\* C3: while Static is active, the Heat relay and the Cool relay are never
\* both on.
C3_StaticExclusion ==
    static_control_active => ~(relay_states["HEAT"] /\ relay_states["COOL"])

\* C4: no control evaluation issues a relay command in a tick in which the
\* position-sensor link is classified unhealthy.
C4_NoCommandWhileUnhealthy ==
    ~(lastOp = "update_gui" /\ tick_ir_health = "unhealthy"
      /\ tick_commands # {})

\* C5: when the position-sensor link is found unhealthy for the first time
\* during a Static or Dynamic session, recording or not, that tick invokes
\* the safety stop and leaves the mode Manual.
C5_LossStopsControl ==
    [][((static_control_active \/ dynamic_control_active)
         /\ ~ir_warning_shown
         /\ lastOp' = "update_gui" /\ tick_ir_health' = "unhealthy")
        => (safety_stop_invoked' /\ Manual')]_vars

\* C6: the safety stop of the position-sensor link is invoked at most once
\* per unhealthy episode; its latch is cleared only in a step that leaves the
\* link classified Healthy; and with the latch clear, a tick that finds the
\* link unhealthy during a recording invokes the stop (again).
C6_OncePerEpisode ==
    [][/\ episode_stops' <= 1
       /\ (ir_warning_shown /\ ~ir_warning_shown')
            => (ir_sensor_controller' /\ IsConnectionHealthy(St)')
       /\ (/\ ~ir_warning_shown /\ (monitoring_active \/ recording_active)
           /\ lastOp' = "update_gui" /\ tick_ir_health' = "unhealthy")
            => safety_stop_invoked']_vars

\* a second episode: the stop is invoked for a silence that began after a
\* heartbeat which had ended an earlier silence
C6_Witness ==
    /\ safety_stop_invoked /\ episode_stops = 1 /\ stops_total = 2
    /\ last_heartbeat # None /\ last_heartbeat > HeartbeatTimeout

\* ------------------------ SerialDevice: the two threads, line by line
\* reader thread, line 115: last_heartbeat = time.time()
ReaderStoreHeartbeat ==
    /\ ir_running /\ reader_pc = "idle"
    /\ Commit("reader_115",
              [Begin(St) EXCEPT !.last_heartbeat = now, !.reader_pc = "l116"])

\* reader thread, line 116: connection_lost = False
ReaderClearLost ==
    /\ reader_pc = "l116"
    /\ Commit("reader_116",
              [Begin(St) EXCEPT !.connection_lost = FALSE, !.reader_pc = "idle",
                                !.hb_done_at = now])

\* tick thread, line 127 of is_connection_healthy: no heartbeat seen yet
HealthCheckEnter ==
    /\ ir_sensor_controller /\ hc_pc = "idle"
    /\ LET s == [Begin(St) EXCEPT !.hc_call_hb = hb_done_at]
       IN  IF last_heartbeat = None
           THEN Commit("health_check",
                       [s EXCEPT !.hc_result =
                            IF NeverSeenHealthy(s) THEN "true" ELSE "false"])
           ELSE Commit("health_127", [s EXCEPT !.hc_pc = "l130"])

\* tick thread, line 130: time_since_heartbeat = time.time() - last_heartbeat
HealthCheckSince ==
    /\ hc_pc = "l130"
    /\ Commit("health_130",
              [Begin(St) EXCEPT !.hc_since = now - last_heartbeat,
                                !.hc_pc = "l131"])

\* tick thread, lines 131-134: the comparison, the write and the return
HealthCheckDecide ==
    /\ hc_pc = "l131"
    /\ LET s == [Begin(St) EXCEPT !.hc_pc = "idle", !.hc_since = 0]
       IN  IF HeartbeatExpired(hc_since, 0)
           THEN Commit("health_check",
                       [s EXCEPT !.connection_lost = TRUE, !.hc_result = "false"])
           ELSE Commit("health_check",
                       [s EXCEPT !.hc_result =
                            IF ir_connected /\ ~connection_lost
                            THEN "true" ELSE "false"])

\* one heartbeat link with its reader thread and the tick thread
NextLink ==
    \/ DoConnectIRSensor
    \/ DoDisconnectIRSensor
    \/ Advance(ClockSteps)
    \/ ReaderStoreHeartbeat
    \/ ReaderClearLost
    \/ HealthCheckEnter
    \/ HealthCheckSince
    \/ HealthCheckDecide

SpecLink == Init /\ [][NextLink]_vars

\* the acquisition link: every outcome of a read cycle
NextAcquisition ==
    \/ Tick(ValidityReadings, {AllOk})
    \/ DoConnectTC08
    \/ DoDisconnectTC08({AllOk})

SpecAcquisition == Init /\ [][NextAcquisition]_vars

\* C7: with the last HEARTBEAT processed at time T and none after it, a
\* health check at time t returns true when t - T <= 15 and false when
\* t - T > 15.
C7_TimeoutBoundary ==
    (/\ hc_result # "none" /\ ir_connected /\ reader_pc = "idle"
     /\ hb_done_at # None /\ hc_call_hb = hb_done_at)
    => (hc_result = "true" <=> now - hb_done_at <= HeartbeatTimeout)

\* C8: in every interleaving of the reader and the tick thread, a health
\* check made within 15 s after the reader has finished processing a
\* HEARTBEAT returns true.
C8_HealthyAfterHeartbeat ==
    (/\ hc_result # "none" /\ ir_connected
     /\ hc_call_hb # None /\ now - hc_call_hb <= HeartbeatTimeout)
    => hc_result = "true"

\* C9 as stated: a link is classified Healthy only if a HEARTBEAT was seen
\* within the last 15 s, also when none was ever seen.
C9_HealthyOnlyIfRecent ==
    hc_result = "true" =>
        (last_heartbeat # None /\ now - last_heartbeat <= HeartbeatTimeout)

\* C9 as amended: a link is classified Healthy only if it is connected and
\* either no HEARTBEAT was seen since connecting or one was seen within the
\* last 15 s.
C9_HealthyOnlyIfRecentOrNeverSeen ==
    hc_result = "true" =>
        /\ ir_connected
        /\ \/ last_heartbeat = None
           \/ now - last_heartbeat <= HeartbeatTimeout

\* a check that returned true exactly 15 s after the last heartbeat
C9_Witness ==
    /\ hc_result = "true" /\ last_heartbeat # None
    /\ now - last_heartbeat = HeartbeatTimeout

\* C10: the consecutive-failure counter equals the number of read cycles
\* since the last cycle with a valid reading in which every channel failed,
\* and needs_reconnection(k) is true exactly when that number is >= k.
C10_ConsecutiveFailures ==
    /\ consecutive_read_failures = failure_streak
    /\ \A k \in 1..MaxFailures :
           needs_reconnection(St, k) <=> failure_streak >= k
    /\ needs_reconnection(St, FailureThreshold)
           <=> failure_streak >= FailureThreshold

\* five failed cycles in a row
C10_Witness ==
    /\ lastOp = "update_gui" /\ failure_streak = FailureThreshold
    /\ needs_reconnection(St, FailureThreshold)

\* one valid reading after the threshold was reached
C10_WitnessReset ==
    /\ lastOp = "update_gui" /\ failure_streak = 0
    /\ total_read_failures >= FailureThreshold

\* C11: while the acquisition link has reached the reconnection threshold
\* (at least 5 consecutive read cycles that failed on every channel), a tick
\* of an active Static or Dynamic mode issues no relay command.
C11_NoCommandWhenStarved ==
    ~(/\ lastOp = "update_gui"
      /\ needs_reconnection(St, FailureThreshold)
      /\ tick_commands # {})

\* the position last reported by the sensor, the lines still queued included
Reported == ProcessAll(sensor_reported, message_queue)
\* no callback of a correction is due and still waiting to run
NoDueTimer == \A t \in override_timers : t > now

\* C12: a momentary correction to p set at T with no other correction pending
\* and none set after it resolves to p during [T, T+3 s), and from T+3 s on
\* to the position the sensor reported last.
C12_MomentaryRevertsToSensor ==
    (/\ correction_at # None /\ correction_kind = "single"
     /\ ~persistent_manual_mode /\ ir_sensor_controller
     /\ Reported # None /\ NoDueTimer)
    => IF now < correction_at + CorrectionDelay
       THEN GetCurrentFishPosition(St) = correction_value
       ELSE GetCurrentFishPosition(St) = Reported

\* C13: a momentary correction set at T2 while an earlier one is still in
\* force stays in force until T2+3 s.
C13_RestartedDelay ==
    (/\ correction_at # None /\ correction_kind = "restart"
     /\ now < correction_at + CorrectionDelay)
    => manual_position_override = correction_value

\* C14: while the persistent manual mode is on, the override is set and only
\* a position button changes it; a correction callback that fires leaves it
\* alone, and a correction in force when the mode is switched on is kept.
C14_PersistentNeverExpires ==
    [][/\ (persistent_manual_mode /\ persistent_manual_mode'
            /\ lastOp' # "set_manual_fish_position")
           => /\ manual_position_override' = manual_position_override
              /\ manual_position_override' # None
              /\ GetCurrentFishPosition(St)' = manual_position_override
       /\ (~persistent_manual_mode /\ persistent_manual_mode'
            /\ manual_position_override # None)
           => manual_position_override' = manual_position_override]_vars

\* a correction callback has fired in persistent mode and the operator's
\* Right is still the override
C14_Witness ==
    /\ lastOp = "return_to_automatic" /\ persistent_manual_mode
    /\ manual_position_override = 2

C15_WitnessSensor ==
    /\ resolved_position = 2 /\ manual_position_override = None
    /\ ir_sensor_controller /\ sensor_reported = 2

\* C16: after every tick the warm-average series, the cold-average series,
\* the fish-temperature series and their timestamps have the same length.
C16_SeriesAligned ==
    lastOp = "update_gui" =>
        /\ Len(warm_avg_data) = Len(avg_timestamps)
        /\ Len(cold_avg_data) = Len(avg_timestamps)
        /\ Len(fish_temp_data) = Len(avg_timestamps)

\* C17: after every tick each channel history and each of the three series
\* holds at most max_data_points entries.
C17_SeriesBounded ==
    lastOp = "update_gui" =>
        /\ \A c \in ChannelSet :
               Len(temperature_timestamps[c]) <= MaxDataPoints(St)
        /\ Len(warm_avg_data) <= MaxDataPoints(St)
        /\ Len(cold_avg_data) <= MaxDataPoints(St)
        /\ Len(fish_temp_data) <= MaxDataPoints(St)

\* C18: Static and Dynamic are never both active, and a mode that was
\* started while the other was active has replaced it.
C18_ModesExclusive ==
    /\ ~(static_control_active /\ dynamic_control_active)
    /\ (lastOp = "toggle_dynamic_control" /\ mode_before = "static"
         /\ dynamic_control_active) => ~static_control_active
    /\ (lastOp = "toggle_static_control" /\ mode_before = "dynamic"
         /\ static_control_active) => ~dynamic_control_active

\* Dynamic was started while Static was active
C18_Witness ==
    /\ lastOp = "toggle_dynamic_control" /\ mode_before = "static"
    /\ dynamic_control_active /\ ~static_control_active

\* C19: in every reachable state the difference sub-mode is active only
\* while Dynamic is active.
C19_DifferenceInsideDynamic ==
    difference_control_active => dynamic_control_active

\* C20: a request to start Static or Dynamic that is turned down (an average
\* is unavailable, or for Dynamic the position is not resolvable) leaves the
\* three mode flags and the four relay states as they were.
C20_RejectedStartChangesNothing ==
    [][(/\ lastOp' \in {"toggle_static_control", "toggle_dynamic_control"}
        /\ \/ lastOp' = "toggle_static_control" /\ ~static_control_active
           \/ lastOp' = "toggle_dynamic_control" /\ ~dynamic_control_active
        /\ \/ GetWarmSideAverage(St) = None
           \/ GetColdSideAverage(St) = None
           \/ /\ lastOp' = "toggle_dynamic_control"
              /\ GetCurrentFishPosition(St) \notin Positions)
       => /\ start_rejected'
          /\ static_control_active' = static_control_active
          /\ dynamic_control_active' = dynamic_control_active
          /\ difference_control_active' = difference_control_active
          /\ relay_states' = relay_states
          /\ desired_states' = desired_states]_vars

\* Static was requested before both averages were there, with the Heat
\* relay switched on by hand
C20_Witness ==
    /\ lastOp = "toggle_static_control" /\ start_rejected
    /\ tc08_controller /\ plotting_active /\ temp_control_controller
    /\ relay_states["HEAT"]

\* Dynamic was requested without a position source while Static was running
\* with the Heat relay on
C20_WitnessPosition ==
    /\ lastOp = "toggle_dynamic_control" /\ start_rejected
    /\ static_control_active /\ relay_states["HEAT"]

\* C21: a tick in which a Static or Dynamic control evaluation raised an
\* exception ends with neither Static nor Dynamic active and with the
\* control-error text as the status; after that a tick issues no relay
\* command while neither mode is active, and a mode becomes active again
\* only through its start button.
C21_ExceptionForcesManual ==
    [][/\ (lastOp' = "update_gui" /\ control_exception')
           => /\ ~static_control_active' /\ ~dynamic_control_active'
              /\ status_written' = "error"
       /\ (~static_control_active /\ ~dynamic_control_active
             /\ lastOp' = "update_gui")
           => tick_commands' = {}
       /\ (~static_control_active /\ ~dynamic_control_active
             /\ (static_control_active' \/ dynamic_control_active'))
           => lastOp' \in {"toggle_static_control", "toggle_dynamic_control"}
      ]_vars

\* a control evaluation has raised with the relay controller connected
C21_Witness ==
    /\ lastOp = "update_gui" /\ control_exception
    /\ temp_control_controller /\ status_written = "error"

\* a control evaluation has raised on a missing relay controller
C21_WitnessController ==
    /\ lastOp = "update_gui" /\ control_exception
    /\ ~temp_control_controller

\* C27: a tick that starts with neither Static nor Dynamic active leaves
\* the four relays, and the states asked of them, as they were.
C27_ManualTickKeepsRelays ==
    [][(~static_control_active /\ ~dynamic_control_active
         /\ lastOp' = "update_gui")
        => /\ relay_states' = relay_states
           /\ desired_states' = desired_states
           /\ tick_commands' = {}]_vars

\* a tick has run in Manual with a relay on and valid averages
C27_Witness ==
    /\ lastOp = "update_gui"
    /\ ~static_control_active /\ ~dynamic_control_active
    /\ plotting_active /\ relay_states["HEAT"]
    /\ GetWarmSideAverage(St) # None /\ GetColdSideAverage(St) # None

\* the averages the control evaluation of the last step read, and the gap
\* between them
warm_average == tick_warm_avg
cold_average == tick_cold_avg
actual_gap == Abs(tick_warm_avg - tick_cold_avg)

\* the step is a tick whose Static evaluation ran to its end
StaticTickDone == lastOp' = "update_gui" /\ status_written' = "static"
\* the step is a tick whose Dynamic evaluation ran to its end, without
\* (plain) or with the difference control
PlainDynamicTickDone ==
    /\ lastOp' = "update_gui" /\ status_written' = "dynamic"
    /\ ~difference_control_active
DifferenceTickDone ==
    /\ lastOp' = "update_gui" /\ status_written' = "dynamic"
    /\ difference_control_active

\* the targets of the static mode as the settings give them
warm_target ==
    IF start_side_var = "warm" THEN start_temp_var
    ELSE start_temp_var + temp_diff_var
cold_target ==
    IF start_side_var = "warm" THEN start_temp_var - temp_diff_var
    ELSE start_temp_var

\* the side selection of the dynamic mode for the position of the tick
SideSelected ==
    /\ resolved_position' = 2
        => relay_states'["HEAT"] /\ ~relay_states'["COOL"]
    /\ resolved_position' = 1
        => relay_states'["COOL"] /\ ~relay_states'["HEAT"]
    /\ resolved_position' = 0
        => /\ relay_states'["HEAT"] = relay_states["HEAT"]
           /\ relay_states'["COOL"] = relay_states["COOL"]

C22_WitnessCold ==
    /\ lastOp = "update_gui" /\ status_written = "static"
    /\ start_side_var = "cold"
    /\ cold_average < cold_target /\ ~relay_states["COOL"]
    /\ relay_states["HEAT"]

\* C23: in a Static tick and in a Dynamic tick without difference control
\* the buffer relays are both switched on when the gap between the averages
\* is above diff + hysteresis, both off when it is below diff, and both left
\* alone when diff <= gap <= diff + hysteresis.
C23_BufferBand ==
    [][(StaticTickDone \/ PlainDynamicTickDone) =>
        /\ actual_gap' > temp_diff_var + hysteresis_var
            => relay_states'["BHEAT"] /\ relay_states'["BCOOL"]
        /\ actual_gap' < temp_diff_var
            => ~relay_states'["BHEAT"] /\ ~relay_states'["BCOOL"]
        /\ (actual_gap' >= temp_diff_var
             /\ actual_gap' <= temp_diff_var + hysteresis_var)
            => /\ relay_states'["BHEAT"] = relay_states["BHEAT"]
               /\ relay_states'["BCOOL"] = relay_states["BCOOL"]
      ]_vars

\* a Dynamic tick without difference control has left the buffer relays off
\* with the gap strictly inside the band
C23_Witness ==
    /\ lastOp = "update_gui" /\ status_written = "dynamic"
    /\ ~difference_control_active
    /\ actual_gap > temp_diff_var
    /\ actual_gap < temp_diff_var + hysteresis_var
    /\ ~relay_states["BHEAT"] /\ ~relay_states["BCOOL"]

\* a Static tick has switched the buffer relays on
C23_WitnessStatic ==
    /\ lastOp = "update_gui" /\ status_written = "static"
    /\ actual_gap > temp_diff_var + hysteresis_var
    /\ relay_states["BHEAT"] /\ relay_states["BCOOL"]

\* C24: a Dynamic tick without difference control and with valid averages
\* leaves Heat on and Cool off at position Right, Cool on and Heat off at
\* position Left, and Heat and Cool as they were at position Passage.
C24_SideSelection ==
    [][PlainDynamicTickDone => SideSelected]_vars

\* a Dynamic tick without difference control has left Heat on in the passage
C24_Witness ==
    /\ lastOp = "update_gui" /\ status_written = "dynamic"
    /\ ~difference_control_active
    /\ resolved_position = 0
    /\ relay_states["HEAT"] /\ ~relay_states["COOL"]

\* C25: in a Dynamic tick with difference control whose gap is below the
\* target difference, Heat and Cool are both on afterwards at position Left
\* or Right, and at position Passage they are both on afterwards if exactly
\* one of them was on before.
C25_DriveApart ==
    [][(DifferenceTickDone /\ actual_gap' < temp_diff_var) =>
        /\ resolved_position' \in {1, 2}
            => relay_states'["HEAT"] /\ relay_states'["COOL"]
        /\ (resolved_position' = 0
             /\ relay_states["HEAT"] # relay_states["COOL"])
            => relay_states'["HEAT"] /\ relay_states'["COOL"]
      ]_vars

\* a tick with difference control and a gap below the target has both
\* relays on at position Left
C25_Witness ==
    /\ lastOp = "update_gui" /\ status_written = "dynamic"
    /\ difference_control_active /\ actual_gap < temp_diff_var
    /\ resolved_position = 1
    /\ relay_states["HEAT"] /\ relay_states["COOL"]

\* the same in the passage
C25_WitnessPassage ==
    /\ lastOp = "update_gui" /\ status_written = "dynamic"
    /\ difference_control_active /\ actual_gap < temp_diff_var
    /\ resolved_position = 0
    /\ relay_states["HEAT"] /\ relay_states["COOL"]

\* C26: in a Dynamic tick with difference control whose gap lies within the
\* band (diff <= gap <= diff + hysteresis) Heat and Cool follow the side
\* selection of the plain Dynamic mode and both buffer relays are off
\* afterwards.
C26_WithinBand ==
    [][(DifferenceTickDone
         /\ actual_gap' >= temp_diff_var
         /\ actual_gap' <= temp_diff_var + hysteresis_var) =>
        /\ SideSelected
        /\ ~relay_states'["BHEAT"] /\ ~relay_states'["BCOOL"]
      ]_vars

\* a tick with difference control and the gap inside the band has run at
\* position Right
C26_Witness ==
    /\ lastOp = "update_gui" /\ status_written = "dynamic"
    /\ difference_control_active
    /\ actual_gap >= temp_diff_var
    /\ actual_gap <= temp_diff_var + hysteresis_var
    /\ resolved_position = 2
    /\ relay_states["HEAT"] /\ ~relay_states["COOL"]
    /\ ~relay_states["BHEAT"] /\ ~relay_states["BCOOL"]

\* ------------------------------------------------------------------ C28
\* the channels of a subset with a stored sample, and the mean of their
\* most recent stored samples, each channel counted once
StoredChannels(S) == {c \in S : temperature_data[c] # None}

SumOfStored(S) ==
    LET F[i \in 0..Len(Channels)] ==
            IF i = 0 THEN 0
            ELSE F[i - 1] + (IF Channels[i] \in StoredChannels(S)
                             THEN temperature_data[Channels[i]] ELSE 0)
    IN  F[Len(Channels)]

MeanOfStored(S) ==
    IF StoredChannels(S) = {} THEN None
    ELSE SumOfStored(S) \div Cardinality(StoredChannels(S))

\* C28 as stated: the warm (cold) average is the mean of the most recent
\* stored valid sample of each channel of the warm (cold) subset that has
\* one, each such channel counted once, and it is unavailable exactly when
\* no channel of the subset has a stored valid sample.
C28_AverageOfStored ==
    /\ GetWarmSideAverage(St) = MeanOfStored(WarmChannels)
    /\ GetColdSideAverage(St) = MeanOfStored(ColdChannels)
    /\ (GetWarmSideAverage(St) = None) <=> (StoredChannels(WarmChannels) = {})
    /\ (GetColdSideAverage(St) = None) <=> (StoredChannels(ColdChannels) = {})

\* C28, amended: while the acquisition device is present and plotting is
\* active, the warm (cold) average is the mean of the most recent stored
\* valid sample of each channel of the warm (cold) subset that has one, each
\* such channel counted once, and it is unavailable exactly when no channel
\* of the subset has a stored valid sample; without the acquisition device
\* or with plotting inactive both averages are unavailable, whatever is
\* stored.
C28_AverageOfStoredWhilePlotting ==
    IF tc08_controller /\ plotting_active
    THEN /\ GetWarmSideAverage(St) = MeanOfStored(WarmChannels)
         /\ GetColdSideAverage(St) = MeanOfStored(ColdChannels)
         /\ (GetWarmSideAverage(St) = None)
                <=> (StoredChannels(WarmChannels) = {})
         /\ (GetColdSideAverage(St) = None)
                <=> (StoredChannels(ColdChannels) = {})
    ELSE /\ GetWarmSideAverage(St) = None
         /\ GetColdSideAverage(St) = None

\* a warm probe without a sample beside two with different samples, and a
\* cold tank without any sample, while plotting
C28_Witness ==
    /\ tc08_controller /\ plotting_active
    /\ temperature_data[Channels[1]] = 230
    /\ temperature_data[Channels[2]] = 260
    /\ temperature_data[Channels[3]] = None
    /\ StoredChannels(ColdChannels) = {}
    /\ GetWarmSideAverage(St) = 245
    /\ GetColdSideAverage(St) = None

\* samples stored, the acquisition device disconnected
C28_WitnessDisconnected ==
    /\ ~tc08_controller
    /\ StoredChannels(WarmChannels) # {}
    /\ StoredChannels(ColdChannels) # {}
    /\ GetWarmSideAverage(St) = None

\* ------------------------------------------------------------------ C29
\* C29: for every number of configured channels the warm subset is the
\* first half and the cold subset the second half of the channel list in
\* configuration order, and the subsets the controller averages over are
\* the subsets averaged into the series, written to the recording and
\* named in its header.
C29_SameSubsets ==
    LET n == Len(tc08_channels)
    IN  /\ ControlWarmChannels(tc08_channels)
              = {tc08_channels[i] : i \in 1..(n \div 2)}
        /\ ControlColdChannels(tc08_channels)
              = {tc08_channels[i] : i \in (n \div 2 + 1)..n}
        /\ SeriesWarmChannels(tc08_channels)
              = ControlWarmChannels(tc08_channels)
        /\ SeriesColdChannels(tc08_channels)
              = ControlColdChannels(tc08_channels)
        /\ HeaderWarmChannels(tc08_channels)
              = ControlWarmChannels(tc08_channels)
        /\ HeaderColdChannels(tc08_channels)
              = ControlColdChannels(tc08_channels)

\* ------------------------------------------------------------------ C30
\* the averages the organism temperature needs at a position
RequiredAvailable(pos) ==
    /\ pos \in {0, 2} => GetWarmSideAverage(St) # None
    /\ pos \in {0, 1} => GetColdSideAverage(St) # None

\* C30: the organism temperature is the warm average at position Right, the
\* cold average at position Left and the arithmetic mean of both at
\* position Passage; with a known position it is unavailable only when an
\* average required at that position is unavailable (at Right only the
\* warm average is required, at Left only the cold average).
C30_FishTemperature ==
    LET pos == GetCurrentFishPosition(St)
        warm_avg == GetWarmSideAverage(St)
        cold_avg == GetColdSideAverage(St)
    IN  (pos \in Positions /\ RequiredAvailable(pos)) =>
            /\ pos = 2 => GetFishTemperature(St) = warm_avg
            /\ pos = 1 => GetFishTemperature(St) = cold_avg
            /\ pos = 0 => GetFishTemperature(St) = (warm_avg + cold_avg) \div 2

\* ------------------------------------------------------------------ C31
\* C31: whatever lines arrive and however the reader thread interleaves
\* with the tick thread, when get_latest_data returns the position is the
\* one named by the last well-formed position line received (POSITION:n or
\* a bare n, n in 0..2; 0 before the first one), every other line having
\* left it unchanged; no HEARTBEAT line is in the queue and the position is
\* always one of 0, 1, 2.
C31_LastValidPosition ==
    /\ fish_position \in Positions
    /\ \A i \in 1..Len(message_queue) : message_queue[i] # "HEARTBEAT"
    /\ (lastOp = "get_latest_data") =>
           fish_position =
               (IF received_position = None THEN 0 ELSE received_position)

\* ------------------------------------------------------------------ C32
\* C32: a read for which the controller raises its "not connected" or "not
\* streaming" condition counts as one failed cycle: the counter of
\* consecutive failures and the counter of total failures each grow by one.
C32_RaisedReadCounts ==
    [][(lastOp' = "read_temperatures" /\ read_error' # "none") =>
           /\ consecutive_read_failures' = consecutive_read_failures + 1
           /\ total_read_failures' = total_read_failures + 1]_vars

\* ------------------------------------------------------------------ C33
\* every step named a of the last tick ran before every step named b
RanBefore(a, b) ==
    \A i, j \in 1..Len(tick_order) :
        (tick_order[i] = a /\ tick_order[j] = b) => i < j

\* C33: within every tick the steps run in the order sampling, link-health
\* evaluation, control evaluation, recording of the row: the health of the
\* links is evaluated before the control decision of the same tick, and the
\* row recorded shows the relays as that tick's control decision left them.
C33_TickOrder ==
    (lastOp = "update_gui") =>
        /\ RanBefore("sampling", "health")
        /\ RanBefore("health", "control")
        /\ RanBefore("control", "recording")
        /\ (tick_row.written /\ ~safety_stop_invoked) =>
               /\ tick_row.heating = relay_states["HEAT"]
               /\ tick_row.cooling = relay_states["COOL"]

C34_WitnessControl ==
    /\ lastOp = "update_gui" /\ control_exception
    /\ update_timers = 1

\* ------------------------------------------------------------------ C35
\* C35: once disconnect() has cleared the running flag, the loop of the
\* reader thread comes to see it and ends, and a reader that has ended puts
\* no further line into the queue.
C35_ReaderTerminates ==
    /\ (read_loop # "not_started" /\ ~ir_running) ~> (read_loop = "ended")
    /\ [][read_loop = "ended" => message_queue' = message_queue]_vars

\* the reader has ended after a disconnect, with lines it had queued
C35_Witness ==
    /\ lastOp = "read_messages" /\ read_loop = "ended"
    /\ ~ir_running /\ ~serial_open
    /\ message_queue # <<>>

\* ------------------------------------------------------------------ C37
\* C37: after every tick no history of a channel holds an entry older than
\* the retention period (the plot period), also for a channel that has
\* stopped giving valid samples, so that no average used for control rests
\* on a sample older than that.
C37_NoStaleSample ==
    lastOp = "update_gui" =>
        \A c \in ChannelSet :
            \A i \in 1..Len(temperature_timestamps[c]) :
                now - temperature_timestamps[c][i] <= plot_period

\* ------------------------------------------------------------------ C38
\* what toggle_static_control (resp. toggle_dynamic_control) leaves when it
\* is invoked in the present state and every write succeeds
AfterStaticToggle == ToggleStaticControl(Begin(St), AllOk)
AfterDynamicToggle == ToggleDynamicControl(Begin(St), AllOk)

\* C38: in every reachable state in which Static (resp. Dynamic) is active
\* and the relay controller is connected, the toggle of the mode switches
\* the mode (and the difference sub-mode) off and commands the four relays
\* off.
C38_ToggleStops ==
    /\ (static_control_active /\ temp_control_controller) =>
           /\ ~AfterStaticToggle.static_control_active
           /\ AfterStaticToggle.relay_states = AllOff
    /\ (dynamic_control_active /\ temp_control_controller) =>
           /\ ~AfterDynamicToggle.dynamic_control_active
           /\ ~AfterDynamicToggle.difference_control_active
           /\ AfterDynamicToggle.relay_states = AllOff

\* ------------------------------------------------------------------ C39
\* C39: after disconnect_tc08 no automatic mode is active (Static, Dynamic
\* and the difference sub-mode are off) and the four relays have been
\* commanded off.
C39_DisconnectStopsModes ==
    lastOp = "disconnect_tc08" =>
        /\ ~static_control_active
        /\ ~dynamic_control_active
        /\ ~difference_control_active
        /\ temp_control_controller => relay_states = AllOff

\* ------------------------------------------------------------------ C40
\* the read cycle that gives again what is stored, and the tick run once
\* more from the present state on it
SameReadings ==
    [c \in ChannelSet |->
        IF temperature_data[c] = None THEN Invalid ELSE temperature_data[c]]
TickAgain == UpdateGui(Begin(St), SameReadings, AllOk)

\* the last step was a tick whose Dynamic evaluation with the difference
\* control ran to its end
AfterDifferenceTick ==
    /\ lastOp = "update_gui" /\ status_written = "dynamic"
    /\ difference_control_active

\* C40: with the averages, the position, the target difference and the
\* hysteresis unchanged, a second tick of Dynamic with the difference
\* control leaves the four relays as the first left them, whatever the
\* relays were before the first.
C40_DifferenceTickIdempotent ==
    AfterDifferenceTick =>
        /\ TickAgain.status_written = "dynamic"
        /\ TickAgain.tick_warm_avg = tick_warm_avg
        /\ TickAgain.tick_cold_avg = tick_cold_avg
        /\ TickAgain.resolved_position = resolved_position
        /\ TickAgain.relay_states = relay_states

\* a tick in the passage, the sides too close, that found one of Heat and
\* Cool running and added the other
C40_Witness ==
    /\ AfterDifferenceTick
    /\ resolved_position = 0
    /\ actual_gap < temp_diff_var
    /\ tick_commands # {}
    /\ relay_states["HEAT"] /\ relay_states["COOL"]

====
